---- MODULE Spec2Model ----
(***************************************************************************)
(* Reed-Solomon erasure coding and Shamir secret sharing over GF(2^8):     *)
(* the field kernels (finite_field.rs), the matrix algebra (matrix.rs),    *)
(* the polynomial algebra (polynomial.rs), the chunker (chunker.rs), the   *)
(* codecs (encoder.rs) and the Shamir layer (shamir.rs).                   *)
(***************************************************************************)
EXTENDS Integers, Sequences, FiniteSets, TLC

(***************************************************************************)
(* Bounds of the model.                                                    *)
(***************************************************************************)
MaxLen == 3
MaxData == 2
MaxCode == 2
MaxShards == 2
MaxWords == 1
MaxExponent == 8
MaxDim == 2
MaxParts == 3
MaxItems == 4
MaxChunk == 3
MaxMask == 4
MaxCols == 3

(***************************************************************************)
(* u8 helpers.                                                             *)
(***************************************************************************)
Byte == 0..255

\* x ^ y, bit by bit.
RECURSIVE XorBits(_, _)
XorBits(a, b) ==
    IF a = 0 THEN b
    ELSE IF b = 0 THEN a
    ELSE ((a + b) % 2) + 2 * XorBits(a \div 2, b \div 2)

RECURSIVE XorRow(_, _, _)
XorRow(a, lo, hi) ==
    IF lo = hi THEN <<XorBits(a, lo)>>
    ELSE XorRow(a, lo, (lo + hi) \div 2) \o XorRow(a, ((lo + hi) \div 2) + 1, hi)

RECURSIVE XorRows(_, _)
XorRows(lo, hi) ==
    IF lo = hi THEN <<XorRow(lo, 0, 15)>>
    ELSE XorRows(lo, (lo + hi) \div 2) \o XorRows(((lo + hi) \div 2) + 1, hi)

\* x ^ y on u8, nibble by nibble through the tabulated XorBits.
XorNibbles == XorRows(0, 15)

Xor(a, b) ==
    16 * XorNibbles[(a \div 16) + 1][(b \div 16) + 1]
    + XorNibbles[(a % 16) + 1][(b % 16) + 1]

\* The outcome of an operation that panics instead of returning.
Panic == -1

\* Arrays and vectors are sequences; the source indexes them from 0.
At(a, i) == a[i + 1]
Set(a, i, v) == [a EXCEPT ![i + 1] = v]

\* A loop over lo..=hi is unfolded by halving its range; the first half is
\* evaluated before the second half is entered.
Then(first, rest) == IF first = first THEN rest ELSE rest

\* The vector <<Op(lo), ..., Op(hi)>>, empty when lo > hi.
Tabulate(lo, hi, Op(_)) ==
    LET t[n \in (lo - 1)..hi] ==
            IF n < lo THEN <<>> ELSE Append(t[n - 1], Op(n))
    IN IF lo > hi THEN <<>> ELSE t[hi]

\* Result<T, E> with a third outcome for a panic.
Ok(v) == [tag |-> "Ok", val |-> v]
Err(msg) == [tag |-> "Err", val |-> msg]
Panicked == [tag |-> "Panic", val |-> "panic"]

\* Option<T>
None == [tag |-> "None", val |-> "none"]
Some(v) == [tag |-> "Some", val |-> v]

\* [v; n] and iter::repeat(v).take(n).collect()
RECURSIVE Repeat(_, _)
Repeat(v, n) ==
    IF n <= 0 THEN <<>>
    ELSE IF n = 1 THEN <<v>>
    ELSE Repeat(v, n \div 2) \o Repeat(v, n - (n \div 2))

(***************************************************************************)
(* finite_field.rs                                                         *)
(***************************************************************************)
IRREDUCIBLE == 27
GENERATOR == 3

Field256_zero == 0
Field256_one == 1
Field256_add(x, y) == Xor(x, y)

\* A multiplication that shifts a without reducing it by IRREDUCIBLE.
RECURSIVE DirectMulLoopUnreduced(_, _, _, _)
DirectMulLoopUnreduced(result, a, b, n) ==
    IF n = 0 \/ b = 0 THEN result
    ELSE DirectMulLoopUnreduced(
             IF b % 2 = 1 THEN Xor(result, a) ELSE result,
             (a * 2) % 256, b \div 2, n - 1)

\* A multiplication that reduces by 0x11D, x^8 + x^4 + x^3 + x^2 + 1.
RECURSIVE DirectMulLoopOtherModulus(_, _, _, _)
DirectMulLoopOtherModulus(result, a, b, n) ==
    IF n = 0 \/ b = 0 THEN result
    ELSE DirectMulLoopOtherModulus(
             IF b % 2 = 1 THEN Xor(result, a) ELSE result,
             IF a >= 128 THEN Xor((a * 2) % 256, IRREDUCIBLE + 2) ELSE a * 2,
             b \div 2, n - 1)

\* DirectField::mul: "Russian peasant" multiplication, at most 8 rounds,
\* leaving the loop as soon as the shifted multiplier is zero.
RECURSIVE DirectMulLoop(_, _, _, _)
DirectMulLoop(result, a, b, n) ==
    IF n = 0 THEN result
    ELSE LET r == IF b % 2 = 1 THEN Xor(result, a) ELSE result
         IN IF b \div 2 = 0 THEN r
            ELSE DirectMulLoop(r,
                     IF a >= 128 THEN Xor((a * 2) % 256, IRREDUCIBLE)
                     ELSE a * 2,
                     b \div 2, n - 1)

Direct_mul(x, y) == DirectMulLoop(Field256_zero, x, y, 8)

\* Field256::inv (default method) over DirectField: brute-force search of
\* 1..=255 for the first i with mul(i, x) = 1; the assert fails if none.
RECURSIVE DirectInvSearch(_, _, _)
DirectInvSearch(lo, hi, x) ==
    IF lo > hi THEN Panic
    ELSE IF lo = hi
         THEN (IF Direct_mul(lo, x) = Field256_one THEN lo ELSE Panic)
    ELSE LET mid == (lo + hi) \div 2
             first == DirectInvSearch(lo, mid, x)
         IN IF first # Panic THEN first
            ELSE DirectInvSearch(mid + 1, hi, x)

\* Field256::inv (default method): the first i in 1..=255 with mul(i, x) = 1.
DirectInvCompute(x) == DirectInvSearch(1, 255, x)

RECURSIVE DirectInvRange(_, _)
DirectInvRange(lo, hi) ==
    IF lo = hi THEN <<DirectInvCompute(lo)>>
    ELSE DirectInvRange(lo, (lo + hi) \div 2)
         \o DirectInvRange(((lo + hi) \div 2) + 1, hi)

\* inv is a pure function of x: its 256 results are computed once.
DirectInvResults == DirectInvRange(0, 255)

Direct_inv(x) == At(DirectInvResults, x)

\* Field256::div (default method) over DirectField.
DirectDivBy(x, iy) == IF iy = Panic THEN Panic ELSE Direct_mul(x, iy)

Direct_div(x, y) == DirectDivBy(x, Direct_inv(y))

\* Field256::exp (default method): y rounds of result = mul(result, x).
RECURSIVE DirectExpLoop(_, _, _)
DirectExpLoop(result, x, n) ==
    IF n = 0 THEN result
    ELSE IF n = 1 THEN Direct_mul(result, x)
    ELSE LET first == DirectExpLoop(result, x, n \div 2)
         IN Then(first, DirectExpLoop(first, x, n - (n \div 2)))

Direct_exp(x, y) == DirectExpLoop(Field256_one, x, y)

\* A table construction that fills exp[0..=255] only, not its second copy.
ExpLogStepSingle(i, res) ==
    [x |-> Direct_mul(res.x, GENERATOR),
     exp |-> Set(res.exp, i, res.x),
     log |-> Set(res.log, res.x, i)]

\* ExpLogField::default: the exp[512] and log[256] tables.
ExpLogStep(i, res) ==
    [x |-> Direct_mul(res.x, GENERATOR),
     exp |-> Set(Set(res.exp, i, res.x), i + 255, res.x),
     log |-> Set(res.log, res.x, i)]

RECURSIVE ExpLogBuild(_, _, _)
ExpLogBuild(lo, hi, res) ==
    IF lo > hi THEN res
    ELSE IF lo = hi THEN ExpLogStep(lo, res)
    ELSE LET first == ExpLogBuild(lo, (lo + hi) \div 2, res)
         IN Then(first, ExpLogBuild(((lo + hi) \div 2) + 1, hi, first))

ExpLogField ==
    ExpLogBuild(0, 255,
        [x |-> Field256_one,
         exp |-> Repeat(0, 512),
         log |-> Repeat(0, 256)])

\* The index into the exp table that each method of ExpLogField reads
\* once both operands have passed its tests for zero: logx + logy,
\* logx - logy + 255, 255 - log[x] and (logx * logy) % 256.
ExpLogMulIndexNext(self, x, y) == At(self.log, x) + At(self.log, y) + 1

ExpLogMulIndex(self, x, y) == At(self.log, x) + At(self.log, y)

ExpLogDivIndex(self, x, y) == At(self.log, x) - At(self.log, y) + 255

ExpLogInvIndex(self, x) == 255 - At(self.log, x)

ExpLogExpIndex(self, x, y) == (At(self.log, x) * At(self.log, y)) % 256

\* The methods of ExpLogField; self holds the exp and log tables.
ExpLog_mul(self, x, y) ==
    IF x = 0 \/ y = 0 THEN 0
    ELSE At(self.exp, ExpLogMulIndex(self, x, y))

ExpLog_div(self, x, y) ==
    IF x = 0 THEN 0
    ELSE IF y = 0 THEN Panic
    ELSE At(self.exp, ExpLogDivIndex(self, x, y))

\* An inverse read one slot too far in the exp table.
ExpLogInvFrom256(self, x) ==
    IF x = 0 THEN 0
    ELSE At(self.exp, 256 - At(self.log, x))

ExpLog_inv(self, x) ==
    IF x = 0 THEN 0
    ELSE At(self.exp, ExpLogInvIndex(self, x))

ExpLog_exp(self, x, y) ==
    IF x = 0 THEN 0
    ELSE IF y = 0 THEN 1
    ELSE At(self.exp, ExpLogExpIndex(self, x, y))

\* TableField::default: the inv[256] and mul[256][256] tables.
RECURSIVE TableInvBuild(_, _, _)
TableInvBuild(lo, hi, table) ==
    IF lo > hi THEN table
    ELSE IF lo = hi THEN Set(table, lo, DirectInvCompute(lo))
    ELSE LET first == TableInvBuild(lo, (lo + hi) \div 2, table)
         IN Then(first, TableInvBuild(((lo + hi) \div 2) + 1, hi, first))

RECURSIVE TableMulRow(_, _, _, _)
TableMulRow(i, lo, hi, row) ==
    IF lo > hi THEN row
    ELSE IF lo = hi THEN Set(row, lo, Direct_mul(i, lo))
    ELSE LET first == TableMulRow(i, lo, (lo + hi) \div 2, row)
         IN Then(first, TableMulRow(i, ((lo + hi) \div 2) + 1, hi, first))

RECURSIVE TableMulBuild(_, _, _)
TableMulBuild(lo, hi, table) ==
    IF lo > hi THEN table
    ELSE IF lo = hi
         THEN Set(table, lo, TableMulRow(lo, 0, 255, At(table, lo)))
    ELSE LET first == TableMulBuild(lo, (lo + hi) \div 2, table)
         IN Then(first, TableMulBuild(((lo + hi) \div 2) + 1, hi, first))

TableField ==
    [inv |-> TableInvBuild(1, 255, Repeat(0, 256)),
     mul |-> TableMulBuild(0, 255, Repeat(Repeat(0, 256), 256))]

\* The methods of TableField; self holds the inv and mul tables.
Table_mul(self, x, y) ==
    IF x = 0 \/ y = 0 THEN 0 ELSE At(At(self.mul, x), y)

\* A division that multiplies by the divisor, not by its inverse.
TableDivNoInverse(self, x, y) ==
    IF x = 0 THEN 0
    ELSE IF y = 0 THEN Panic
    ELSE At(At(self.mul, x), y)

Table_div(self, x, y) ==
    IF x = 0 THEN 0
    ELSE IF y = 0 THEN Panic
    ELSE At(At(self.mul, x), At(self.inv, y))

Table_inv(self, x) ==
    IF x = 0 THEN 0 ELSE At(self.inv, x)

\* Field256::exp (default method) over TableField.
RECURSIVE TableExpLoop(_, _, _, _)
TableExpLoop(self, result, x, n) ==
    IF n = 0 THEN result
    ELSE IF n = 1 THEN Table_mul(self, result, x)
    ELSE LET first == TableExpLoop(self, result, x, n \div 2)
         IN Then(first, TableExpLoop(self, first, x, n - (n \div 2)))

Table_exp(self, x, y) == TableExpLoop(self, Field256_one, x, y)

\* The Field256 capability, dispatched on the field variant.
Fields == {"Direct", "ExpLog", "Table"}

mul(f, x, y) ==
    CASE f = "Direct" -> Direct_mul(x, y)
      [] f = "ExpLog" -> ExpLog_mul(ExpLogField, x, y)
      [] f = "Table" -> Table_mul(TableField, x, y)

inv(f, x) ==
    CASE f = "Direct" -> Direct_inv(x)
      [] f = "ExpLog" -> ExpLog_inv(ExpLogField, x)
      [] f = "Table" -> Table_inv(TableField, x)

div(f, x, y) ==
    CASE f = "Direct" -> Direct_div(x, y)
      [] f = "ExpLog" -> ExpLog_div(ExpLogField, x, y)
      [] f = "Table" -> Table_div(TableField, x, y)

exp(f, x, y) ==
    CASE f = "Direct" -> Direct_exp(x, y)
      [] f = "ExpLog" -> ExpLog_exp(ExpLogField, x, y)
      [] f = "Table" -> Table_exp(TableField, x, y)

(***************************************************************************)
(* matrix.rs                                                               *)
(***************************************************************************)
Matrix(rows, cols, mat) == [rows |-> rows, cols |-> cols, mat |-> mat]

Matrix_zero(rows, cols) == Matrix(rows, cols, Repeat(Repeat(0, cols), rows))

Matrix_identity(n) ==
    Matrix(n, n,
        Tabulate(0, n - 1, LAMBDA i :
            Tabulate(0, n - 1, LAMBDA j : IF i = j THEN 1 ELSE 0)))

\* TryFrom<Vec<Vec<u8>>>: no rows or no columns is an error; the elements
\* are copied into zero(rows, cols), rows being as long as the first one.
Matrix_try_from(elems) ==
    IF Len(elems) <= 0 THEN Err("Cannot have a matrix with 0 rows")
    ELSE IF Len(elems[1]) <= 0 THEN Err("Cannot have a matrix with 0 cols")
    ELSE IF \E i \in 1..Len(elems) : Len(elems[i]) > Len(elems[1])
         THEN Panicked
    ELSE Ok(Matrix(Len(elems), Len(elems[1]),
             Tabulate(1, Len(elems), LAMBDA i :
                 elems[i] \o Repeat(0, Len(elems[1]) - Len(elems[i])))))

\* An element of the product that keeps the last term only, each term
\* overwriting the one before.
MulElemLastTerm(a, b, i, j, k, acc, f) ==
    mul(f, At(At(a.mat, i), a.cols - 1), At(At(b.mat, a.cols - 1), j))

\* One element of Matrix::mul: the sum over k in 0..self.cols of
\* self[i][k] * other[k][j], accumulated in order.
RECURSIVE MulElem(_, _, _, _, _, _, _)
MulElem(a, b, i, j, k, acc, f) ==
    IF k >= a.cols THEN acc
    ELSE MulElem(a, b, i, j, k + 1,
             Field256_add(acc, mul(f, At(At(a.mat, i), k), At(At(b.mat, k), j))),
             f)

\* Matrix::mul: asserts self.cols == other.rows.
Matrix_mul(a, b, f) ==
    IF a.cols # b.rows THEN Panicked
    ELSE Ok(Matrix(a.rows, b.cols,
             Tabulate(0, a.rows - 1, LAMBDA i :
                 Tabulate(0, b.cols - 1, LAMBDA j :
                     MulElem(a, b, i, j, 0, 0, f)))))

\* Matrix::swap_row: swaps two local references to the rows; the matrix
\* itself is left as it was.
swap_row(m, from_row, to_row) == m

scale_row(m, row, scale, f) ==
    [m EXCEPT !.mat =
        Set(m.mat, row,
            Tabulate(0, m.cols - 1, LAMBDA i :
                mul(f, At(At(m.mat, row), i), scale)))]

add_scaled_row(m, from_row, to_row, scale, f) ==
    [m EXCEPT !.mat =
        Set(m.mat, to_row,
            Tabulate(0, m.cols - 1, LAMBDA i :
                Field256_add(At(At(m.mat, to_row), i),
                             mul(f, At(At(m.mat, from_row), i), scale))))]

augment_with_identity(m) ==
    Matrix(m.rows, m.cols * 2,
        Tabulate(0, m.rows - 1, LAMBDA i :
            At(m.mat, i)
            \o Tabulate(0, m.cols - 1, LAMBDA j : IF i = j THEN 1 ELSE 0)))

\* invert, the search "for j in i..self.rows { if self.mat[j][i] != 0 ..."
\* over the matrix being inverted (not the working copy): the row found,
\* or self.rows when there is none.
RECURSIVE PivotRow(_, _, _)
PivotRow(self, i, j) ==
    IF j >= self.rows THEN self.rows
    ELSE IF At(At(self.mat, j), i) # 0 THEN j
    ELSE PivotRow(self, i, j + 1)

\* invert, "for j in (i + 1)..self.rows": clears column i below the pivot.
RECURSIVE EliminateBelow(_, _, _, _, _)
EliminateBelow(res, rows, i, j, f) ==
    IF j >= rows THEN res
    ELSE EliminateBelow(
             IF At(At(res.mat, j), i) # 0
             THEN add_scaled_row(res, i, j, At(At(res.mat, j), i), f)
             ELSE res,
             rows, i, j + 1, f)

\* invert, "res.swap_row(i, j); break" for the row the search found.
SwapPivot(self, res, i) ==
    IF PivotRow(self, i, i) < self.rows
    THEN swap_row(res, i, PivotRow(self, i, i))
    ELSE res

\* invert, "if res.mat[i][i] != 1 { res.scale_row(i, inv(res.mat[i][i])) }".
ScalePivot(res, i, f) ==
    IF At(At(res.mat, i), i) # 1
    THEN scale_row(res, i, inv(f, At(At(res.mat, i), i)), f)
    ELSE res

\* invert, the upper triangular reduction "for i in 0..self.rows";
\* UpperReductionRow is the rest of round i once the rows are swapped.
RECURSIVE UpperReduction(_, _, _, _)
UpperReductionRow(self, res, i, f) ==
    IF At(At(res.mat, i), i) = 0
    THEN Err("The matrix is singular and cannot be inverted.")
    ELSE UpperReduction(self,
             EliminateBelow(ScalePivot(res, i, f), self.rows, i, i + 1, f),
             i + 1, f)

UpperReduction(self, res, i, f) ==
    IF i >= self.rows THEN Ok(res)
    ELSE IF i >= self.cols THEN Panicked
    ELSE UpperReductionRow(self, SwapPivot(self, res, i), i, f)

\* invert, "for j in 0..i" of the lower triangular reduction.
RECURSIVE EliminateAbove(_, _, _, _)
EliminateAbove(res, i, j, f) ==
    IF j >= i THEN res
    ELSE EliminateAbove(
             add_scaled_row(res, i, j, At(At(res.mat, j), i), f), i, j + 1, f)

\* An inversion that leaves the upper triangle as it is.
SkipLowerReduction(res, i, f) == res

\* invert, the lower triangular reduction "for i in (0..self.rows).rev()".
RECURSIVE LowerReduction(_, _, _)
LowerReduction(res, i, f) ==
    IF i < 0 THEN res
    ELSE LowerReduction(EliminateAbove(res, i, 0, f), i - 1, f)

\* invert, ret_mat: the right half of the reduced matrix.
RightHalf(self, res) ==
    Matrix(self.rows, self.cols,
        Tabulate(0, self.rows - 1, LAMBDA i :
            Tabulate(0, self.cols - 1, LAMBDA j :
                At(At(res.mat, i), j + self.cols))))

\* invert, after the upper triangular reduction has returned or failed.
InvertReduced(self, upper, f) ==
    IF upper.tag # "Ok" THEN upper
    ELSE Ok(RightHalf(self, LowerReduction(upper.val, self.rows - 1, f)))

\* Matrix::invert: Gauss-Jordan on the matrix augmented with the identity;
\* the right half of the reduced matrix is returned.
Matrix_invert(self, f) ==
    InvertReduced(self,
        UpperReduction(self, augment_with_identity(self), 0, f), f)

\* VandermondeMatrix: row i of start..start+rows holds exp(i as u8, j as u8).
vandermonde_matrix(start, rows, cols, f) ==
    Matrix_try_from(
        Tabulate(start, start + rows - 1, LAMBDA i :
            Tabulate(0, cols - 1, LAMBDA j : exp(f, i % 256, j % 256))))

\* Every index of the mask, whatever its entries.
AllIndices(mask) == Tabulate(1, Len(mask), LAMBDA n : n - 1)

\* The indices i (from 0) with mask[i] true, in increasing order.
TrueIndices(mask) ==
    LET idx[n \in 0..Len(mask)] ==
            IF n = 0 THEN <<>>
            ELSE IF mask[n] THEN Append(idx[n - 1], n - 1)
            ELSE idx[n - 1]
    IN idx[Len(mask)]

\* PartialVandermondeMatrix: one row per true entry of the mask.
partial_vandermonde_matrix(mask, cols, f) ==
    LET rows == TrueIndices(mask)
    IN Matrix_try_from(
           Tabulate(1, Len(rows), LAMBDA r :
               Tabulate(0, cols - 1, LAMBDA j :
                   exp(f, rows[r] % 256, j % 256))))

\* cauchy_matrix: entry [i][j] = inv(add(x_i, y_j)) with x_i in
\* start..start+rows and y_j in start+rows..start+rows+cols.
cauchy_matrix(start, rows, cols, f) ==
    Matrix_try_from(
        Tabulate(start, start + rows - 1, LAMBDA i :
            Tabulate(0, cols - 1, LAMBDA j :
                inv(f, Field256_add(i % 256, (start + rows + j) % 256)))))

\* partial_cauchy_matrix: the rows of cauchy_matrix(0, |mask|, cols) whose
\* mask entry is true.
partial_cauchy_matrix(mask, cols, f) ==
    LET rows == TrueIndices(mask)
    IN Matrix_try_from(
           Tabulate(1, Len(rows), LAMBDA r :
               Tabulate(0, cols - 1, LAMBDA j :
                   inv(f, Field256_add(rows[r] % 256, (Len(mask) + j) % 256)))))

\* Matrix::mul_vec(x, out, field): out[i] = sum over j of self[i][j] * x[j],
\* written into the buffer the caller allocated.
RECURSIVE MulVecElem(_, _, _, _, _, _)
MulVecElem(a, x, i, j, acc, f) ==
    IF j >= a.cols THEN acc
    ELSE MulVecElem(a, x, i, j + 1,
             Field256_add(acc, mul(f, At(At(a.mat, i), j), At(x, j))), f)

mul_vec(a, x, out, f) ==
    Tabulate(0, Len(out) - 1, LAMBDA i :
        IF i < a.rows THEN MulVecElem(a, x, i, 0, 0, f) ELSE At(out, i))

(***************************************************************************)
(* polynomial.rs: a polynomial is its vector of coefficients.              *)
(***************************************************************************)
Polynomial_zero == <<>>

from_coefficients(coefficients) == coefficients

degree(p) == Len(p) - 1

is_zero(p) == degree(p) = -1

\* Add for &Polynomial: the shorter vector is extended with zeros and the
\* coefficients are added with wrapping_add.
Polynomial_add(self, other) ==
    LET shorter == IF Len(self) > Len(other) THEN other ELSE self
        longer == IF Len(self) > Len(other) THEN self ELSE other
    IN from_coefficients(
           Tabulate(1, Len(longer), LAMBDA i :
               ((IF i <= Len(shorter) THEN shorter[i] ELSE 0) + longer[i]) % 256))

\* Mul for &Polynomial, the coefficient of x^e: the wrapping sum of
\* c1 * c2 (wrapping_mul) over e1 + e2 = e.
RECURSIVE MulCoefficient(_, _, _, _, _)
MulCoefficient(self, other, e, e1, acc) ==
    IF e1 >= Len(self) THEN acc
    ELSE MulCoefficient(self, other, e, e1 + 1,
             IF e - e1 >= 0 /\ e - e1 < Len(other)
             THEN (acc + ((At(self, e1) * At(other, e - e1)) % 256)) % 256
             ELSE acc)

Polynomial_mul(self, other) ==
    IF is_zero(self) \/ is_zero(other) THEN Polynomial_zero
    ELSE from_coefficients(
             Tabulate(0, degree(self) + degree(other), LAMBDA e :
                 MulCoefficient(self, other, e, 0, 0)))

\* single_term, the loop over the xj other than xi.
RECURSIVE SingleTermLoop(_, _, _, _)
SingleTermLoop(values, xi, xj, term) ==
    IF xj >= Len(values) THEN term
    ELSE IF xj % 256 = xi THEN SingleTermLoop(values, xi, xj + 1, term)
    ELSE LET denominator == (xi - (xj % 256)) % 256
             zeroth_term == ((0 - (xj % 256)) % 256) \div denominator
             first_term == 1 \div denominator
             p == from_coefficients(<<zeroth_term, first_term>>)
             next == Polynomial_mul(term, p)
         IN Then(next, SingleTermLoop(values, xi, xj + 1, next))

single_term(values, i) ==
    IF Len(values) = 0 THEN Polynomial_zero
    ELSE SingleTermLoop(values, i, 0, from_coefficients(<<At(values, i)>>))

\* Polynomial::interpolate: the sum of single_term(values, i) for i in
\* 0..values.len() - 1.
RECURSIVE InterpolateFold(_, _, _)
InterpolateFold(values, i, acc) ==
    IF i >= Len(values) - 1 THEN acc
    ELSE LET next == Polynomial_add(acc, single_term(values, i % 256))
         IN Then(next, InterpolateFold(values, i + 1, next))

interpolate(values) ==
    IF Len(values) = 0 THEN Polynomial_zero
    ELSE InterpolateFold(values, 0, Polynomial_zero)

\* x.wrapping_pow(e)
RECURSIVE wrapping_pow(_, _)
wrapping_pow(x, e) == IF e = 0 THEN 1 ELSE (x * wrapping_pow(x, e - 1)) % 256

\* Polynomial::evaluate: the wrapping sum of x^e * c.
RECURSIVE EvaluateLoop(_, _, _, _)
EvaluateLoop(p, x, e, result) ==
    IF e >= Len(p) THEN result
    ELSE EvaluateLoop(p, x, e + 1,
             (result + ((wrapping_pow(x, e) * At(p, e)) % 256)) % 256)

evaluate(p, x) == EvaluateLoop(p, x, 0, 0)

\* interpolate_points, the basis term of point i:
\* y_i * prod over j /= i of (x - x_j) / (x_i - x_j), the quotients taken
\* in the field.
BasisFactor(xj, denominator, f) ==
    from_coefficients(
        <<div(f, xj, denominator), div(f, Field256_one, denominator)>>)

RECURSIVE BasisTermLoop(_, _, _, _, _)
BasisTermLoop(points, i, j, term, f) ==
    IF j > Len(points) THEN term
    ELSE IF j = i THEN BasisTermLoop(points, i, j + 1, term, f)
    ELSE BasisTermLoop(points, i, j + 1,
             Polynomial_mul(term,
                 BasisFactor(points[j][1],
                     Field256_add(points[i][1], points[j][1]), f)),
             f)

RECURSIVE InterpolatePointsFold(_, _, _, _)
InterpolatePointsFold(points, i, acc, f) ==
    IF i > Len(points) THEN acc
    ELSE InterpolatePointsFold(points, i + 1,
             Polynomial_add(acc,
                 BasisTermLoop(points, i, 1,
                     from_coefficients(<<points[i][2]>>), f)),
             f)

interpolate_points(points, f) ==
    InterpolatePointsFold(points, 1, Polynomial_zero, f)

(***************************************************************************)
(* chunker.rs                                                              *)
(***************************************************************************)
Min(a, b) == IF a < b THEN a ELSE b

\* A chunker that loses the item following each window.
ChunkerNextSkipping(iter, chunk_size) ==
    LET taken == Min(chunk_size, Len(iter))
    IN [ret |-> SubSeq(iter, 1, taken),
        iter |-> SubSeq(iter, taken + 2, Len(iter))]

\* Chunker::next on the items left in the iterator: the window (<<>> for
\* None) and the items left after it.
Chunker_next(iter, chunk_size) ==
    LET taken == IF chunk_size = 0 THEN Len(iter) ELSE Min(chunk_size, Len(iter))
    IN [ret |-> SubSeq(iter, 1, taken),
        iter |-> SubSeq(iter, taken + 1, Len(iter))]

\* A padded chunker that leaves a short last window short.
ChunkerDefaultNextUnpadded(iter, chunk_size, default) ==
    Chunker_next(iter, chunk_size)

\* ChunkerDefault::next: as Chunker::next, a short window being extended
\* with the default.
ChunkerDefault_next(iter, chunk_size, default) ==
    LET n == Chunker_next(iter, chunk_size)
    IN [ret |-> IF Len(n.ret) = 0 THEN <<>>
                ELSE n.ret \o Repeat(default, chunk_size - Len(n.ret)),
        iter |-> n.iter]

\* A chunker that yields the full windows only and drops a short last one.
chunked_full_windows_only(iter, chunk_size, default) ==
    Tabulate(0, (Len(iter) \div chunk_size) - 1, LAMBDA w :
        SubSeq(iter, w * chunk_size + 1, (w + 1) * chunk_size))

\* The windows a for loop over chunked_with_default collects.
RECURSIVE chunked_with_default(_, _, _)
chunked_with_default(iter, chunk_size, default) ==
    LET n == ChunkerDefault_next(iter, chunk_size, default)
    IN IF Len(n.ret) = 0 THEN <<>>
       ELSE <<n.ret>> \o chunked_with_default(n.iter, chunk_size, default)

(***************************************************************************)
(* encoding.rs, encoder.rs                                                 *)
(***************************************************************************)
Encoding(k, m) == [data_chunks |-> k, code_chunks |-> m]

total_chunks(encoding) == encoding.data_chunks + encoding.code_chunks

\* A &str is the sequence of its characters, each a one-character string.
DigitChars == <<"0", "1", "2", "3", "4", "5", "6", "7", "8", "9">>
IsDigit(c) == \E i \in 1..10 : DigitChars[i] = c
DigitValue(c) == (CHOOSE i \in 1..10 : DigitChars[i] = c) - 1

\* s.starts_with(prefix)
starts_with(s, prefix) ==
    Len(s) >= Len(prefix) /\ SubSeq(s, 1, Len(prefix)) = prefix

\* s.split(sep): the pieces between the separators, empty ones included.
RECURSIVE split_on(_, _, _, _, _)
split_on(s, sep, i, piece, pieces) ==
    IF i > Len(s) THEN Append(pieces, piece)
    ELSE IF s[i] = sep
         THEN split_on(s, sep, i + 1, <<>>, Append(pieces, piece))
    ELSE split_on(s, sep, i + 1, Append(piece, s[i]), pieces)

\* u8::from_str, the digit loop: result = result * 10 + digit, checked.
RECURSIVE ParseDigits(_, _, _)
ParseDigits(src, i, result) ==
    IF i > Len(src) THEN Ok(result)
    ELSE IF ~IsDigit(src[i]) THEN Err("InvalidDigit")
    ELSE IF result * 10 + DigitValue(src[i]) > 255 THEN Err("PosOverflow")
    ELSE ParseDigits(src, i + 1, result * 10 + DigitValue(src[i]))

\* u8::from_str (the standard library): an optional "+", then digits.
u8_from_str(src) ==
    IF Len(src) = 0 THEN Err("Empty")
    ELSE IF Len(src) = 1 /\ src[1] \in {"+", "-"} THEN Err("InvalidDigit")
    ELSE ParseDigits(src, IF src[1] = "+" THEN 2 ELSE 1, 0)

\* A sum that wraps instead of overflowing.
wrapping_add_some(x, y) == Some((x + y) % 256)

\* u8::checked_add
checked_add(x, y) == IF x + y <= 255 THEN Some(x + y) ELSE None

\* Encoding::from_str, "match chunks[..]" on the parsed pieces.
MatchChunks(chunks) ==
    IF Len(chunks) = 2 /\ chunks[1].tag = "Ok" /\ chunks[2].tag = "Ok"
    THEN IF checked_add(chunks[1].val, chunks[2].val).tag = "Some"
         THEN Ok(Encoding(chunks[1].val, chunks[2].val))
         ELSE Err("Total number of chunks must be less than 256.")
    ELSE Err("Chunks must be specified in the form m.n where m and n are integers.")

\* Encoding::from_str
Encoding_from_str(s) ==
    IF ~starts_with(s, <<"r", "s", "=">>)
    THEN Err("Encodings must start with \"rs=\"")
    ELSE MatchChunks(
             LET pieces == split_on(SubSeq(s, 4, Len(s)), ".", 1, <<>>, <<>>)
             IN [i \in 1..Len(pieces) |-> u8_from_str(pieces[i])])

RSStream(length, encoding, codes, valid) ==
    [length |-> length, encoding |-> encoding, codes |-> codes, valid |-> valid]

RSStream_empty(encoding) == RSStream(0, encoding, <<>>, <<>>)

TooManyErasures == Err("Too many erasures to recover")

\* A count of the entries of the mask, true or not.
CountEntries(valid) == Len(valid)

\* valid.iter().filter(|x| *x).count()
CountValid(valid) == Len(TrueIndices(valid))


\* The highest k of the valid indices, not the lowest.
HighestValidIndices(valid, k) ==
    SubSeq(TrueIndices(valid),
           Len(TrueIndices(valid)) - Min(k, Len(TrueIndices(valid))) + 1,
           Len(TrueIndices(valid)))

\* valid.iter().enumerate().filter(..).map(..).take(k).collect()
valid_indices(valid, k) ==
    SubSeq(TrueIndices(valid), 1, Min(k, Len(TrueIndices(valid))))

\* valid.iter().cloned().take(k).all(|x| x)
NoDataErasure(valid, k) == \A i \in 1..Min(k, Len(valid)) : valid[i]

\* LagrangeInterpolationEncoder::encode_bytes
Lagrange_encode_bytes(encoding, f, bytes) ==
    IF Len(bytes) = 0 THEN Ok(RSStream_empty(encoding))
    ELSE IF encoding.data_chunks = 0 THEN Panicked
    ELSE LET chunks == chunked_with_default(bytes, encoding.data_chunks, 0)
         IN Ok(RSStream(Len(bytes), encoding,
                Tabulate(1, Len(chunks), LAMBDA i :
                    LET p == interpolate(chunks[i])
                    IN Tabulate(0, total_chunks(encoding) - 1, LAMBDA b :
                           IF b < encoding.data_chunks THEN At(chunks[i], b)
                           ELSE evaluate(p, b))),
                <<>>))

\* The fast path of LagrangeInterpolationEncoder::decode_bytes:
\* res[i] = codes[i / k][i % k] for i in 0..length.
FastPath(stream) ==
    LET k == stream.encoding.data_chunks
    IN IF \E i \in 0..(stream.length - 1) :
              \/ i \div k >= Len(stream.codes)
              \/ i % k >= Len(At(stream.codes, i \div k))
       THEN Panicked
       ELSE Ok(Tabulate(0, stream.length - 1, LAMBDA i :
                At(At(stream.codes, i \div k), i % k)))

\* The slow path of LagrangeInterpolationEncoder::decode_bytes: for each of
\* the length / k rows, the polynomial through the points at the valid
\* indices is evaluated at 0..k.
LagrangeSlowPath(stream, f) ==
    LET k == stream.encoding.data_chunks
        indices == valid_indices(stream.valid, k)
        rows == stream.length \div k
    IN IF \/ rows > Len(stream.codes)
          \/ \E r \in 1..rows, e \in 1..Len(indices) :
                 indices[e] >= Len(stream.codes[r])
       THEN Panicked
       ELSE Ok(Tabulate(0, rows * k - 1, LAMBDA i :
                LET row == i \div k
                    points == Tabulate(1, Len(indices), LAMBDA e :
                                  <<indices[e] % 256,
                                    At(At(stream.codes, row), indices[e])>>)
                IN evaluate(interpolate_points(points, f), i % k)))

\* LagrangeInterpolationEncoder::decode_bytes
Lagrange_decode_bytes(stream, f) ==
    IF stream.length = 0 THEN Ok(<<>>)
    ELSE IF CountValid(stream.valid) < stream.encoding.data_chunks
         THEN TooManyErasures
    ELSE IF NoDataErasure(stream.valid, stream.encoding.data_chunks)
         THEN FastPath(stream)
    ELSE LagrangeSlowPath(stream, f)

\* iter().take(n)
Take(s, n) == SubSeq(s, 1, Min(n, Len(s)))

\* encode_bytes_matrix: each chunk of k bytes (the last one padded with 0)
\* followed by generator * chunk.
encode_bytes_matrix(encoding, generator, f, bytes) ==
    IF encoding.data_chunks = 0 THEN Panicked
    ELSE LET chunks == chunked_with_default(bytes, encoding.data_chunks, 0)
         IN Ok(RSStream(Len(bytes), encoding,
                Tabulate(1, Len(chunks), LAMBDA i :
                    Take(chunks[i], encoding.data_chunks)
                    \o Take(mul_vec(generator, chunks[i],
                                    Repeat(0, encoding.code_chunks), f),
                            encoding.code_chunks)),
                <<>>))

\* decode_bytes_matrix: for each of the length / k rows, generator times
\* the symbols at the valid indices.
decode_bytes_matrix(stream, generator, indices, f) ==
    LET k == stream.encoding.data_chunks
        rows == stream.length \div k
    IN IF \/ rows > Len(stream.codes)
          \/ \E r \in 1..rows, e \in 1..Len(indices) :
                 indices[e] >= Len(stream.codes[r])
       THEN Panicked
       ELSE LET decoded ==
                    Tabulate(0, rows - 1, LAMBDA i :
                        Take(mul_vec(generator,
                                 Tabulate(1, Len(indices), LAMBDA e :
                                     At(At(stream.codes, i), indices[e])),
                                 Repeat(0, k), f),
                             k))
                flat[n \in 0..rows] ==
                    IF n = 0 THEN <<>> ELSE flat[n - 1] \o decoded[n]
            IN Ok(flat[rows])

\* "top(..)?.invert(field)?" followed by "bottom(..)?.mul(&inverted, field)":
\* an error of any step is returned, a panic ends the call.
GeneratorFrom(inverted, bottom, f) ==
    IF inverted.tag # "Ok" THEN inverted
    ELSE IF bottom.tag # "Ok" THEN bottom
    ELSE Matrix_mul(bottom.val, inverted.val, f)

GeneratorOf(top, bottom, f) ==
    IF top.tag # "Ok" THEN top
    ELSE GeneratorFrom(Matrix_invert(top.val, f), bottom, f)

\* "let generator = ...?; return encode_bytes_matrix(.., &generator, ..)"
EncodeWith(generator, encoding, f, bytes) ==
    IF generator.tag # "Ok" THEN generator
    ELSE encode_bytes_matrix(encoding, generator.val, f, bytes)

\* "let generator = ...?; return decode_bytes_matrix(.., &generator, ..)"
DecodeWith(generator, stream, indices, f) ==
    IF generator.tag # "Ok" THEN generator
    ELSE decode_bytes_matrix(stream, generator.val, indices, f)

\* An encoder that builds its generator before it looks at the input.
EmptyOrEncodeWith(generator, encoding, f, bytes) ==
    IF generator.tag # "Ok" THEN generator
    ELSE IF Len(bytes) = 0 THEN Ok(RSStream_empty(encoding))
    ELSE encode_bytes_matrix(encoding, generator.val, f, bytes)

Vandermonde_encode_generator_first(encoding, f, bytes) ==
    EmptyOrEncodeWith(
        GeneratorOf(
            vandermonde_matrix(0, encoding.data_chunks,
                               encoding.data_chunks, f),
            vandermonde_matrix(encoding.data_chunks, encoding.code_chunks,
                               encoding.data_chunks, f), f),
        encoding, f, bytes)

\* VandermondeEncoder::encode_bytes
Vandermonde_encode_bytes(encoding, f, bytes) ==
    IF Len(bytes) = 0 THEN Ok(RSStream_empty(encoding))
    ELSE EncodeWith(
             GeneratorOf(
                 vandermonde_matrix(0, encoding.data_chunks,
                                    encoding.data_chunks, f),
                 vandermonde_matrix(encoding.data_chunks, encoding.code_chunks,
                                    encoding.data_chunks, f), f),
             encoding, f, bytes)

\* VandermondeEncoder::decode_bytes
Vandermonde_decode_bytes(stream, f) ==
    IF stream.length = 0 THEN Ok(<<>>)
    ELSE LET k == stream.encoding.data_chunks
             indices == valid_indices(stream.valid, k)
         IN IF Len(indices) < k THEN TooManyErasures
            ELSE DecodeWith(
                     GeneratorOf(
                         partial_vandermonde_matrix(stream.valid, k, f),
                         vandermonde_matrix(0, k, k, f), f),
                     stream, indices, f)

\* CauchyEncoder::encode_bytes
Cauchy_encode_bytes(encoding, f, bytes) ==
    IF Len(bytes) = 0 THEN Ok(RSStream_empty(encoding))
    ELSE EncodeWith(
             GeneratorOf(
                 cauchy_matrix(0, encoding.data_chunks,
                               encoding.data_chunks, f),
                 cauchy_matrix(encoding.data_chunks, encoding.code_chunks,
                               encoding.data_chunks, f), f),
             encoding, f, bytes)

\* CauchyEncoder::decode_bytes
Cauchy_decode_bytes(stream, f) ==
    IF stream.length = 0 THEN Ok(<<>>)
    ELSE LET k == stream.encoding.data_chunks
             indices == valid_indices(stream.valid, k)
         IN IF Len(indices) < k THEN TooManyErasures
            ELSE DecodeWith(
                     GeneratorOf(
                         partial_cauchy_matrix(stream.valid, k, f),
                         cauchy_matrix(0, k, k, f), f),
                     stream, indices, f)

\* A decoder that counts the erasures before it looks at the length.
DecodeCountingFirst(c, stream, f) ==
    IF CountValid(stream.valid) < stream.encoding.data_chunks
    THEN TooManyErasures
    ELSE CASE c = "Lagrange" -> Lagrange_decode_bytes(stream, f)
           [] c = "Vandermonde" -> Vandermonde_decode_bytes(stream, f)
           [] c = "Cauchy" -> Cauchy_decode_bytes(stream, f)

\* The RSEncoder trait, dispatched on the codec variant.
Codecs == {"Lagrange", "Vandermonde", "Cauchy"}

encode_bytes(c, encoding, f, bytes) ==
    CASE c = "Lagrange" -> Lagrange_encode_bytes(encoding, f, bytes)
      [] c = "Vandermonde" -> Vandermonde_encode_bytes(encoding, f, bytes)
      [] c = "Cauchy" -> Cauchy_encode_bytes(encoding, f, bytes)

decode_bytes(c, stream, f) ==
    CASE c = "Lagrange" -> Lagrange_decode_bytes(stream, f)
      [] c = "Vandermonde" -> Vandermonde_decode_bytes(stream, f)
      [] c = "Cauchy" -> Cauchy_decode_bytes(stream, f)

(***************************************************************************)
(* words.rs, shamir.rs                                                     *)
(***************************************************************************)
\* load_word_list: the non-empty lines of the word list file, 256 distinct
\* words; the word of byte b is written <<"w", b>>.
wordlist == Tabulate(0, 255, LAMBDA b : <<"w", b>>)

\* A phrase is printed with join(" ") and read back with split(" "): the
\* words come back as they were, except that the empty phrase comes back as
\* one empty word.
EmptyWord == <<"">>
split(phrase) == IF Len(phrase) = 0 THEN <<EmptyWord>> ELSE phrase

\* words_index[w] of from_words: the index of w in the word list; indexing
\* the HashMap with an unknown word panics.
words_index(w) ==
    IF \E i \in 0..255 : At(wordlist, i) = w
    THEN CHOOSE i \in 0..255 : At(wordlist, i) = w
    ELSE Panic

\* words::from_words
from_words(words) == Tabulate(1, Len(words), LAMBDA i : words_index(words[i]))

\* shamir, the phrases built from the streams of the words: stream i gives
\* its first row, byte j of it being word i of phrase j.
ShamirPhrases(shards, length, streams) ==
    IF \E i \in 1..length :
          \/ streams[i].tag # "Ok"
          \/ Len(streams[i].val.codes) = 0
          \/ Len(At(streams[i].val.codes, 0)) > shards + 1
    THEN Panicked
    ELSE Ok(Tabulate(0, shards, LAMBDA j :
             Tabulate(1, length, LAMBDA i :
                 At(wordlist, At(At(streams[i].val.codes, 0), j)))))

\* shamir(shards, required, length), random[i] being the bytes that
\* gen_random_bytes(required) returns in round i: the phrases printed
\* (the password first, then the shards), or a panic.
shamir(shards, required, length, random) ==
    IF shards < required THEN Panicked
    ELSE ShamirPhrases(shards, length,
             Tabulate(1, length, LAMBDA i :
                 Vandermonde_encode_bytes(
                     Encoding(required % 256, (shards - required + 1) % 256),
                     "ExpLog", random[i])))

\* The longest of the phrases read, 0 when there is none.
RECURSIVE MaxLength(_)
MaxLength(words) ==
    IF Len(words) = 0 THEN 0
    ELSE LET rest == MaxLength(Tail(words))
         IN IF Len(Head(words)) > rest THEN Len(Head(words)) ELSE rest

\* unshamir, the password printed from the decoded words, or a panic.
UnshamirPassword(length, data) ==
    IF \E i \in 1..length : data[i].tag # "Ok" \/ Len(data[i].val) = 0
    THEN Panicked
    ELSE Ok(Tabulate(1, length, LAMBDA i : At(wordlist, At(data[i].val, 0))))

\* unshamir, the loop "for i in 0..length": word i of every phrase (0 for a
\* hole) is one row, decoded as a stream of `required` bytes.
UnshamirDecode(phrases, required, words, length) ==
    Tabulate(0, length - 1, LAMBDA i :
        Vandermonde_decode_bytes(
            RSStream(required,
                Encoding(required % 256, (Len(phrases) - required) % 256),
                <<Tabulate(1, Len(words), LAMBDA j :
                      IF Len(words[j]) = length THEN At(words[j], i) ELSE 0)>>,
                Tabulate(1, Len(phrases), LAMBDA j : phrases[j].tag = "Some")),
            "ExpLog"))

\* unshamir, once the phrases are read into byte vectors.
UnshamirWords(phrases, required, words, length) ==
    IF \E j \in 1..Len(words) :
          \E i \in 1..Len(words[j]) : words[j][i] = Panic
    THEN Panicked
    ELSE IF \E j \in 1..Len(words) : Len(words[j]) \notin {0, length}
    THEN Panicked
    ELSE IF Len(phrases) < required THEN Panicked
    ELSE UnshamirPassword(length,
             UnshamirDecode(phrases, required, words, length))

UnshamirRead(phrases, required, words) ==
    UnshamirWords(phrases, required, words, MaxLength(words))

\* unshamir(phrases, required), phrases being positional (None for a hole):
\* the password printed, or a panic.
unshamir(phrases, required) ==
    UnshamirRead(phrases, required,
        Tabulate(1, Len(phrases), LAMBDA j :
            IF phrases[j].tag = "Some"
            THEN from_words(split(phrases[j].val)) ELSE <<>>))

(***************************************************************************)
(* State.  Three call sequences are modelled, one per specification:       *)
(*   Spec        a caller encodes a buffer, loses columns of the stream,   *)
(*               and decodes it (the sequence of the tests of encoder.rs); *)
(*   FieldSpec   one field operation applied in the three field variants;  *)
(*   ShamirSpec  shamir() followed by unshamir() (shamir.rs).              *)
(***************************************************************************)
VARIABLES
    encoder,    \* the RSEncoder variant: "Lagrange", "Vandermonde", "Cauchy"
    fieldv,     \* the Field256 variant handed to the encoder
    rs,         \* the Encoding (data_chunks, code_chunks)
    input,      \* the buffer given to encode_bytes
    pc,         \* "start", "encoded", "erased", "decoded", "tampered",
                \* "compared"; "idle" elsewhere
    sent,       \* what encode_bytes returned; the caller then edits the stream
    output,     \* what decode_bytes returned
    twin,       \* a second stream, made from the one sent
    twinOut,    \* what decode_bytes returned for the second stream
    fx, fy,     \* the operands of the field operation
    fop,        \* the field operation applied: "none", "mul", "inv", "div",
                \* "exp", "muldiv"
    fres,       \* its outcome in each field variant
    faux,       \* the outcome of its second call, where it makes two
    sN, sK, sL, \* shamir(shards, required, length)
    sRandom,    \* the bytes gen_random_bytes returns, one chunk per word
    spc,        \* "start", "generated", "restored"; "idle" elsewhere
    sPhrases,   \* what shamir printed: the password and the shards
    sGiven,     \* the positional phrases handed to unshamir (holes are None)
    sPassword,  \* what unshamir printed
    mxField,    \* the Field256 variant handed to the matrix methods
    mxSelf,     \* the matrix the methods are called on
    mxpc,       \* "start", "inverted", "multiplied", "identity", "product",
                \* "mask", "built"; or "idle"
    mxInverse,  \* what mxSelf.invert(field) returned
    mxProduct,  \* mxSelf.mul(inverse, field)
    mxLeft,     \* identity(rows).mul(mxSelf, field)
    mxRight,    \* mxSelf.mul(identity(cols), field)
    mxOther,    \* the right operand of mxSelf.mul(other, field)
    mxMask,     \* the rows handed to PartialVandermondeMatrix
    mxCols,     \* the cols handed to it and to VandermondeMatrix
    mxPartial,  \* PartialVandermondeMatrix(mask, cols, field)
    mxFull,     \* VandermondeMatrix(0, mask.len(), cols, field)
    psText,     \* the string handed to Encoding::from_str
    psResult,   \* what Encoding::from_str returned
    plValues,   \* the y-values handed to Polynomial::interpolate, or the
                \* coefficients handed to Polynomial::from_coefficients
    plOther,    \* the coefficients of the right operand of + and *
    plPoly,     \* the polynomial returned
    plX,        \* the point the polynomial is evaluated at
    plY,        \* what evaluate returned
    plpc,       \* "start", "interpolated", "evaluated", "constructed",
                \* "added", "multiplied", "evaluated_at"; "idle" elsewhere
    ckInput,    \* the items of the iterator handed to chunked(_with_default)
    ckIter,     \* Chunker.iter: the items not yet consumed
    ckSize,     \* Chunker.chunk_size
    ckDefault,  \* ChunkerDefault.default
    ckMode,     \* "chunked", "chunked_with_default"; "idle" elsewhere
    ckWindows,  \* the windows next() has returned so far, in order
    ckLast,     \* what the last call of next() returned
    ckCalls     \* the number of calls of next() so far

cvars == <<encoder, fieldv, rs, input, pc, sent, output, twin, twinOut>>
fvars == <<fx, fy, fop, fres, faux>>
svars == <<sN, sK, sL, sRandom, spc, sPhrases, sGiven, sPassword>>
mvars == <<mxField, mxSelf, mxpc, mxInverse, mxProduct, mxLeft, mxRight,
          mxOther, mxMask, mxCols, mxPartial, mxFull>>
pvars == <<psText, psResult>>
lvars == <<plValues, plOther, plPoly, plX, plY, plpc>>
kvars == <<ckInput, ckIter, ckSize, ckDefault, ckMode, ckWindows, ckLast, ckCalls>>
vars == <<cvars, fvars, svars, mvars, pvars, lvars, kvars>>

NotRun == [tag |-> "None", val |-> "none"]

CodecIdle ==
    /\ encoder = "Lagrange"
    /\ fieldv = "Direct"
    /\ rs = Encoding(1, 0)
    /\ input = <<>>
    /\ pc = "idle"
    /\ sent = NotRun
    /\ output = NotRun
    /\ twin = NotRun
    /\ twinOut = NotRun

FieldIdle ==
    /\ fx = 0
    /\ fy = 0
    /\ fop = "idle"
    /\ fres = [f \in Fields |-> 0]
    /\ faux = [f \in Fields |-> 0]

ShamirIdle ==
    /\ sN = 1
    /\ sK = 1
    /\ sL = 0
    /\ sRandom = <<>>
    /\ spc = "idle"
    /\ sPhrases = NotRun
    /\ sGiven = <<>>
    /\ sPassword = NotRun

MatrixIdle ==
    /\ mxField = "Direct"
    /\ mxSelf = Matrix_identity(1)
    /\ mxpc = "idle"
    /\ mxInverse = NotRun
    /\ mxProduct = NotRun
    /\ mxLeft = NotRun
    /\ mxRight = NotRun
    /\ mxOther = NotRun
    /\ mxMask = <<>>
    /\ mxCols = 0
    /\ mxPartial = NotRun
    /\ mxFull = NotRun

ParseIdle ==
    /\ psText = <<>>
    /\ psResult = NotRun

ChunkIdle ==
    /\ ckInput = <<>>
    /\ ckIter = <<>>
    /\ ckSize = 1
    /\ ckDefault = 0
    /\ ckMode = "idle"
    /\ ckWindows = <<>>
    /\ ckLast = NotRun
    /\ ckCalls = 0

PolyIdle ==
    /\ plValues = <<>>
    /\ plOther = <<>>
    /\ plPoly = Polynomial_zero
    /\ plX = 0
    /\ plY = 0
    /\ plpc = "idle"

(***************************************************************************)
(* Spec: encode, lose columns, decode.                                     *)
(***************************************************************************)
\* The byte values buffers are drawn from, and the values a lost column
\* may hold.
ByteSamples == {0, 68}
JunkBytes == {0, 170}

\* All sequences of exactly n items of S, as tuples.
RECURSIVE SeqsOf(_, _)
SeqsOf(S, n) ==
    IF n = 0 THEN {<<>>}
    ELSE {Append(q, v) : q \in SeqsOf(S, n - 1), v \in S}

Buffers == UNION {SeqsOf(ByteSamples, n) : n \in 0..MaxLen}

Encodings ==
    {Encoding(k, m) : k \in 1..MaxData, m \in 0..MaxCode}

Masks(n) == SeqsOf(BOOLEAN, n)

Init ==
    /\ encoder \in Codecs
    /\ fieldv \in Fields
    /\ rs \in Encodings
    /\ input \in Buffers
    /\ pc = "start"
    /\ sent = NotRun
    /\ output = NotRun
    /\ twin = NotRun
    /\ twinOut = NotRun
    /\ FieldIdle
    /\ ShamirIdle
    /\ MatrixIdle
    /\ ParseIdle
    /\ PolyIdle
    /\ ChunkIdle

\* encoder.encode_bytes(encoding, &field, &bytes)
Encode ==
    /\ pc = "start"
    /\ sent' = encode_bytes(encoder, rs, fieldv, input)
    /\ pc' = "encoded"
    /\ UNCHANGED <<encoder, fieldv, rs, input, output, twin, twinOut, fvars, svars, mvars, pvars, lvars, kvars>>

\* The columns lost in transit, as the tests of encoder.rs set them up: the
\* caller sets stream.valid to a mask of k+m entries, and the lost columns
\* of every stripe hold some byte.
Erase ==
    /\ pc = "encoded"
    /\ sent.tag = "Ok"
    /\ \E mask \in Masks(total_chunks(rs)), junk \in JunkBytes :
          sent' = [sent EXCEPT
              !.val.valid = mask,
              !.val.codes = Tabulate(1, Len(sent.val.codes), LAMBDA r :
                  Tabulate(1, Len(sent.val.codes[r]), LAMBDA c :
                      IF mask[c] THEN sent.val.codes[r][c] ELSE junk))]
    /\ pc' = "erased"
    /\ UNCHANGED <<encoder, fieldv, rs, input, output, twin, twinOut, fvars, svars, mvars, pvars, lvars, kvars>>

\* encoder.decode_bytes(&stream, &field)
Decode ==
    /\ pc \in {"encoded", "erased"}
    /\ sent.tag = "Ok"
    /\ output' = decode_bytes(encoder, sent.val, fieldv)
    /\ pc' = "decoded"
    /\ UNCHANGED <<encoder, fieldv, rs, input, sent, twin, twinOut, fvars, svars, mvars, pvars, lvars, kvars>>

Next == Encode \/ Erase \/ Decode

Spec == Init /\ [][Next]_vars

(***************************************************************************)
(* Properties of the codecs, stated over Spec.                             *)
(***************************************************************************)
\* The number of columns a mask marks valid, and the number it marks lost.
Trusted(valid) == Cardinality({i \in 1..Len(valid) : valid[i]})
Erased(valid) == Len(valid) - Trusted(valid)

\* ceil(n / k)
StripeCount(n, k) == (n + k - 1) \div k

\* C1: erasure recovery.  For every codec, field, encoding and non-empty
\* buffer: once the stream encode returned has had at most m of its k+m
\* columns marked invalid and overwritten, decode returns Ok(bytes).
C1_ErasureRecovery ==
    (/\ pc = "decoded"
     /\ Len(input) > 0
     /\ Len(sent.val.valid) = total_chunks(rs)
     /\ Erased(sent.val.valid) <= rs.code_chunks)
    => output = Ok(input)

\* C2: round trip without erasures.  For every codec, field, encoding and
\* buffer: decoding the encoder's stream with valid set to k+m entries that
\* are all true returns Ok(bytes).
C2_RoundTripAllValid ==
    (/\ pc = "decoded"
     /\ Len(sent.val.valid) = total_chunks(rs)
     /\ Erased(sent.val.valid) = 0)
    => output = Ok(input)

\* C3: an empty valid mask means that all columns are valid.  For every
\* codec and non-empty buffer: decoding the encoder's stream as the encoder
\* emitted it (valid empty) returns Ok(bytes).
C3_EmptyMaskAllValid ==
    (/\ pc = "decoded"
     /\ Len(input) > 0
     /\ sent.val.valid = <<>>)
    => output = Ok(input)

\* C4: too many erasures.  For every codec: decoding a stream of length > 0
\* whose valid mask has fewer than k true entries returns the error
\* "Too many erasures to recover", never a buffer.
C4_TooManyErasures ==
    (/\ pc = "decoded"
     /\ sent.val.length > 0
     /\ Trusted(sent.val.valid) < sent.val.encoding.data_chunks)
    => output = TooManyErasures

\* A stream of length > 0 with m+1 of its k+m columns lost has been decoded,
\* and the decoder answered with the error.
C4_Witness ==
    /\ pc = "decoded"
    /\ sent.val.length > 0
    /\ Len(sent.val.valid) = total_chunks(rs)
    /\ Erased(sent.val.valid) = rs.code_chunks + 1
    /\ output = TooManyErasures

\* C5: every successful decode returns exactly stream.length bytes, on the
\* fast path and on the slow path, whether or not length is a multiple of k.
C5_DecodeLength ==
    (pc = "decoded" /\ output.tag = "Ok")
    => Len(output.val) = sent.val.length

C7_EncodeRecordsLength ==
    pc = "encoded"
    => /\ Len(input) = 0 => sent = Ok(RSStream_empty(rs))
       /\ sent.tag = "Ok" =>
             /\ sent.val.length = Len(input)
             /\ sent.val.valid = <<>>
             /\ sent.val.encoding = rs
             /\ sent.val.length <= Len(sent.val.codes) * rs.data_chunks

\* The empty buffer has been encoded to the empty stream by a codec, field
\* and encoding for which building the generator fails.
C7_Witness ==
    /\ pc = "encoded"
    /\ Len(input) = 0
    /\ sent = Ok(RSStream_empty(rs))
    /\ encode_bytes(encoder, rs, fieldv, <<0>>).tag = "Err"

\* C8: the codec variants are interchangeable on encode.  For the same
\* field, encoding and input, the Lagrange, Vandermonde and Cauchy encoders
\* return identical codes.
C8_CodecsInterchangeable ==
    (/\ pc = "encoded"
     /\ \A c \in Codecs : encode_bytes(c, rs, fieldv, input).tag = "Ok")
    => \A c \in Codecs :
          encode_bytes(c, rs, fieldv, input).val.codes = sent.val.codes

(***************************************************************************)
(* FieldSpec: one field operation on a pair of bytes, applied in the three *)
(* field variants (the loops of the tests of finite_field.rs).             *)
(***************************************************************************)
FieldInit ==
    /\ fx \in Byte
    /\ fy \in Byte
    /\ fop = "none"
    /\ fres = [f \in Fields |-> 0]
    /\ faux = [f \in Fields |-> 0]
    /\ CodecIdle
    /\ ShamirIdle
    /\ MatrixIdle
    /\ ParseIdle
    /\ PolyIdle
    /\ ChunkIdle

\* field.mul(x, y)
FieldMul ==
    /\ fop = "none"
    /\ fop' = "mul"
    /\ fres' = [f \in Fields |-> mul(f, fx, fy)]
    /\ UNCHANGED <<fx, fy, faux, cvars, svars, mvars, pvars, lvars, kvars>>

\* field.inv(x)
FieldInv ==
    /\ fop = "none"
    /\ fop' = "inv"
    /\ fres' = [f \in Fields |-> inv(f, fx)]
    /\ UNCHANGED <<fx, fy, faux, cvars, svars, mvars, pvars, lvars, kvars>>

\* field.div(x, y)
FieldDiv ==
    /\ fop = "none"
    /\ fop' = "div"
    /\ fres' = [f \in Fields |-> div(f, fx, fy)]
    /\ UNCHANGED <<fx, fy, faux, cvars, svars, mvars, pvars, lvars, kvars>>

\* field.exp(x, y) and field.exp(x, y + 1), for the exponents up to
\* MaxExponent
FieldExp ==
    /\ fop = "none"
    /\ fy <= MaxExponent
    /\ fop' = "exp"
    /\ fres' = [f \in Fields |-> exp(f, fx, fy)]
    /\ faux' = [f \in Fields |-> exp(f, fx, fy + 1)]
    /\ UNCHANGED <<fx, fy, cvars, svars, mvars, pvars, lvars, kvars>>

\* The body of the loop of mul_div_inverse_for:
\* z = field.mul(i, j); field.div(z, i); field.div(z, j)
FieldMulDiv ==
    /\ fop = "none"
    /\ fop' = "muldiv"
    /\ fres' = [f \in Fields |-> div(f, mul(f, fx, fy), fx)]
    /\ faux' = [f \in Fields |-> div(f, mul(f, fx, fy), fy)]
    /\ UNCHANGED <<fx, fy, cvars, svars, mvars, pvars, lvars, kvars>>

FieldNext == FieldMul \/ FieldInv \/ FieldDiv \/ FieldExp \/ FieldMulDiv

FieldSpec == FieldInit /\ [][FieldNext]_vars

\* C10: the field variants are interchangeable.  For all x, y in 0..255,
\* ExpLogField and TableField return what DirectField returns for mul(x, y),
\* for inv(x) when x # 0, and for div(x, y) when y # 0.
C10_FieldsInterchangeable ==
    (\/ fop = "mul"
     \/ fop = "inv" /\ fx # 0
     \/ fop = "div" /\ fy # 0)
    => /\ fres["Direct"] \in Byte
       /\ fres["ExpLog"] = fres["Direct"]
       /\ fres["Table"] = fres["Direct"]

\* 1 has been multiplied by 1: ExpLogField adds log[1] = 255 twice and reads
\* the last slot written of its exp table, and the three variants return 1.
C10_Witness ==
    /\ fop = "mul"
    /\ fx = 1
    /\ fy = 1
    /\ At(ExpLogField.log, 1) = 255
    /\ fres = [f \in Fields |-> 1]

\* C11: exp is repeated multiplication in the field, the exponent being a
\* count.  In every field variant exp(x, 0) = 1 for every x, x = 0 included,
\* and exp(x, y + 1) = mul(exp(x, y), x).
C11_ExpRepeatedMul ==
    fop = "exp"
    => \A f \in Fields :
          /\ fy = 0 => fres[f] = Field256_one
          /\ faux[f] = mul(f, fres[f], fx)

\* C13: multiplicative inverse.  For each field variant and every i in
\* 1..255, inv(i) is a nonzero byte and mul(i, inv(i)) = 1.
C13_InverseIdentity ==
    (fop = "inv" /\ fx # 0)
    => \A f \in Fields :
          /\ fres[f] \in 1..255
          /\ mul(f, fx, fres[f]) = Field256_one

\* 2 has been inverted: the three variants return 141.
C13_Witness ==
    /\ fop = "inv"
    /\ fx = 2
    /\ fres = [f \in Fields |-> 141]
    /\ mul("ExpLog", 2, 141) = 1

\* C14: division undoes multiplication.  For each field variant and all
\* nonzero i, j: div(mul(i, j), i) = j and div(mul(i, j), j) = i.
C14_DivUndoesMul ==
    (fop = "muldiv" /\ fx # 0 /\ fy # 0)
    => \A f \in Fields : fres[f] = fy /\ faux[f] = fx

\* 2 has been multiplied by its inverse 141 and the product 1 divided by
\* each of them.
C14_Witness ==
    /\ fop = "muldiv"
    /\ fx = 2
    /\ fy = 141
    /\ fres = [f \in Fields |-> 141]
    /\ faux = [f \in Fields |-> 2]

\* C15: division by zero is signalled.  In every field variant, for every
\* x in 0..255, x = 0 included, div(x, 0) panics and returns no byte.
C15_DivideByZero ==
    (fop = "div" /\ fy = 0)
    => \A f \in Fields : fres[f] = Panic

\* The product of two bytes as polynomials over GF(2), without carries:
\* the XOR of x << i over the bits i set in y.
RECURSIVE Clmul(_, _)
Clmul(x, y) ==
    IF y = 0 THEN 0
    ELSE XorBits(IF y % 2 = 1 THEN x ELSE 0, 2 * Clmul(x, y \div 2))

\* 0x11B: x^8 + x^4 + x^3 + x + 1.
Modulus == 256 + IRREDUCIBLE

\* The remainder of a polynomial of degree at most d modulo 0x11B.
RECURSIVE ReduceMod(_, _)
ReduceMod(poly, d) ==
    IF d < 8 THEN poly
    ELSE ReduceMod(IF (poly \div (2 ^ d)) % 2 = 1
                   THEN XorBits(poly, Modulus * (2 ^ (d - 8)))
                   ELSE poly,
                   d - 1)

\* C29: DirectField::mul is the reduced carry-less product.  For all bytes
\* x and y it returns the carry-less product of x and y reduced modulo
\* 0x11B; the early exit of the loop and the truncation to 8 bits never
\* change the result.
C29_DirectMulIsClmul ==
    fop = "mul" => fres["Direct"] = ReduceMod(Clmul(fx, fy), 14)

\* 255 * 2: the loop leaves after two rounds, the multiplicand having been
\* reduced once; the product is 0x1FE reduced, 0xE5.
C29_Witness ==
    /\ fop = "mul"
    /\ fx = 255
    /\ fy = 2
    /\ Clmul(fx, fy) = 510
    /\ fres["Direct"] = 229

\* What ExpLogField::default leaves in the tables, both of which start as
\* zeros: exp[0..=510] hold powers of the generator, which are not zero,
\* and exp[511] is as it was; log[x] holds, for every nonzero x, an
\* exponent of x that is not zero, 255 for x = 1, and log[0] is as it was.
ExpLogTablesWritten ==
    /\ Len(ExpLogField.exp) = 512
    /\ Len(ExpLogField.log) = 256
    /\ \A i \in 0..510 : At(ExpLogField.exp, i) \in 1..255
    /\ At(ExpLogField.exp, 511) = 0
    /\ \A x \in 1..255 :
          /\ At(ExpLogField.log, x) \in 1..255
          /\ At(ExpLogField.exp, At(ExpLogField.log, x)) = x
    /\ At(ExpLogField.log, 1) = 255
    /\ At(ExpLogField.log, 0) = 0

\* C30: the tables of ExpLogField are read within what was written.
\* Construction writes exp[0..=510] and log[x] for every nonzero x (log[1]
\* ends as 255); every index used by mul, div (y # 0), inv and exp lies in
\* 0..=510 for the exp table and in 0..=255 for the log table, so exp[511]
\* is never read; and log[0] is never consulted for a nonzero result: an
\* operation with a zero operand returns before it reads a table.
C30_TableSafety ==
    /\ ExpLogTablesWritten
    /\ fx \in 0..255 /\ fy \in 0..255
    /\ fop = "mul"
       => IF fx = 0 \/ fy = 0 THEN fres["ExpLog"] = 0
          ELSE ExpLogMulIndex(ExpLogField, fx, fy) \in 0..510
    /\ fop = "div"
       => IF fx = 0 THEN fres["ExpLog"] = 0
          ELSE IF fy = 0 THEN fres["ExpLog"] = Panic
          ELSE ExpLogDivIndex(ExpLogField, fx, fy) \in 0..510
    /\ fop = "inv"
       => IF fx = 0 THEN fres["ExpLog"] = 0
          ELSE ExpLogInvIndex(ExpLogField, fx) \in 0..510
    /\ fop = "exp"
       => IF fx = 0 THEN fres["ExpLog"] = 0
          ELSE \A y \in 1..255 :
                  ExpLogExpIndex(ExpLogField, fx, y) \in 0..510

\* 1 * 1 reads log[1] = 255 twice and exp[510], the last slot written.
C30_Witness ==
    /\ fop = "mul"
    /\ fx = 1
    /\ fy = 1
    /\ ExpLogMulIndex(ExpLogField, fx, fy) = 510
    /\ fres["ExpLog"] = 1

(***************************************************************************)
(* GeneratorSpec: the loop of mul_generator_for, which marks in exists the *)
(* powers 1..=255 of GENERATOR, run in the three field variants at once.   *)
(***************************************************************************)
GeneratorInit ==
    /\ fx = GENERATOR
    /\ fy = 0
    /\ fop = "span"
    /\ fres = [f \in Fields |-> Repeat(FALSE, 256)]
    /\ faux = [f \in Fields |-> 0]
    /\ CodecIdle
    /\ ShamirIdle
    /\ MatrixIdle
    /\ ParseIdle
    /\ PolyIdle
    /\ ChunkIdle

\* One round, i = fy + 1: x = field.exp(GENERATOR, i); exists[x] = true
GeneratorStep ==
    /\ fop = "span"
    /\ fy < 255
    /\ fy' = fy + 1
    /\ faux' = [f \in Fields |-> exp(f, fx, fy + 1)]
    /\ fres' = [f \in Fields |-> Set(fres[f], exp(f, fx, fy + 1), TRUE)]
    /\ UNCHANGED <<fx, fop, cvars, svars, mvars, pvars, lvars, kvars>>

GeneratorNext == GeneratorStep

GeneratorSpec == GeneratorInit /\ [][GeneratorNext]_vars

\* C12: generator span.  In each field variant the powers exp(3, i), i in
\* 1..255, are all the nonzero bytes: once the loop has run, exists[b] holds
\* for every b in 1..255, and for no other byte.
C12_GeneratorSpan ==
    (fop = "span" /\ fy = 255)
    => \A f \in Fields : \A b \in Byte : At(fres[f], b) <=> b # 0

\* The loop has run to its end; its last round marked 3^255 = 1 in
\* DirectField and TableField, and 255 in ExpLogField, whose exp yields the
\* nonzero bytes in another order.
C12_Witness ==
    /\ fop = "span"
    /\ fy = 255
    /\ faux = [Direct |-> 1, ExpLog |-> 255, Table |-> 1]
    /\ At(fres["ExpLog"], 1)

(***************************************************************************)
(* MatrixSpec: a matrix is inverted and multiplied by its inverse, or      *)
(* multiplied by the identity on either side (the tests of matrix.rs).     *)
(***************************************************************************)
\* The values matrix elements are drawn from.
MatrixEntries == {0, 1, 68}

\* The r x c matrices, r and c up to MaxDim, built as the tests build them.
Matrices ==
    {Matrix_try_from(elems).val :
        elems \in UNION {SeqsOf(SeqsOf(MatrixEntries, c), r) :
                             r \in 1..MaxDim, c \in 1..MaxDim}}

MatrixInit ==
    /\ mxField \in Fields
    /\ mxSelf \in Matrices
    /\ mxpc = "start"
    /\ mxInverse = NotRun
    /\ mxProduct = NotRun
    /\ mxLeft = NotRun
    /\ mxRight = NotRun
    /\ mxOther = NotRun
    /\ mxMask = <<>>
    /\ mxCols = 0
    /\ mxPartial = NotRun
    /\ mxFull = NotRun
    /\ CodecIdle
    /\ FieldIdle
    /\ ShamirIdle
    /\ ParseIdle
    /\ PolyIdle
    /\ ChunkIdle

\* a.invert(&field)
Invert ==
    /\ mxpc = "start"
    /\ mxInverse' = Matrix_invert(mxSelf, mxField)
    /\ mxpc' = "inverted"
    /\ UNCHANGED <<mxField, mxSelf, mxProduct, mxLeft, mxRight,
                   mxOther, mxMask, mxCols, mxPartial, mxFull,
                   cvars, fvars, svars, pvars, lvars, kvars>>

\* a.mul(&a_inv, &field), a_inv being invert(..).unwrap()
MulByInverse ==
    /\ mxpc = "inverted"
    /\ mxInverse.tag = "Ok"
    /\ mxProduct' = Matrix_mul(mxSelf, mxInverse.val, mxField)
    /\ mxpc' = "multiplied"
    /\ UNCHANGED <<mxField, mxSelf, mxInverse, mxLeft, mxRight,
                   mxOther, mxMask, mxCols, mxPartial, mxFull,
                   cvars, fvars, svars, pvars, lvars, kvars>>

\* Matrix::identity(rows).mul(&m, &field) and
\* m.mul(&Matrix::identity(cols), &field)
MulIdentity ==
    /\ mxpc = "start"
    /\ mxLeft' = Matrix_mul(Matrix_identity(mxSelf.rows), mxSelf, mxField)
    /\ mxRight' = Matrix_mul(mxSelf, Matrix_identity(mxSelf.cols), mxField)
    /\ mxpc' = "identity"
    /\ UNCHANGED <<mxField, mxSelf, mxInverse, mxProduct,
                   mxOther, mxMask, mxCols, mxPartial, mxFull,
                   cvars, fvars, svars, pvars, lvars, kvars>>

MatrixNext == Invert \/ MulByInverse \/ MulIdentity

MatrixSpec == MatrixInit /\ [][MatrixNext]_vars

\* C16: inverse correctness.  For every square matrix m for which
\* m.invert(field) returns Ok(inv), m.mul(inv) is identity(m.rows).
C16_InverseCorrect ==
    (mxpc = "multiplied" /\ mxSelf.rows = mxSelf.cols)
    => mxProduct = Ok(Matrix_identity(mxSelf.rows))

\* A 2 x 2 matrix whose inversion scales the pivot row and clears both
\* triangles has been inverted over ExpLogField and multiplied by its
\* inverse.
C16_Witness ==
    /\ mxpc = "multiplied"
    /\ mxField = "ExpLog"
    /\ mxSelf.mat = <<<<68, 1>>, <<1, 1>>>>
    /\ mxInverse.val.mat # mxSelf.mat
    /\ mxProduct = Ok(Matrix_identity(2))

\* The determinant of a square matrix over GF(2^8), expanded along the
\* first row (minus is plus in characteristic 2).
Minor(rows, j) ==
    Tabulate(2, Len(rows), LAMBDA r :
        SubSeq(rows[r], 1, j - 1) \o SubSeq(rows[r], j + 1, Len(rows[r])))

RECURSIVE Determinant(_)
RECURSIVE DeterminantSum(_, _)
DeterminantSum(rows, j) ==
    IF j = 0 THEN 0
    ELSE Xor(DeterminantSum(rows, j - 1),
             Direct_mul(rows[1][j], Determinant(Minor(rows, j))))

Determinant(rows) ==
    IF Len(rows) = 1 THEN rows[1][1] ELSE DeterminantSum(rows, Len(rows))

\* C17: pivot selection in invert.  A row with a nonzero entry in the pivot
\* column is exchanged into the pivot position, so invert succeeds on every
\* nonsingular matrix, those with a zero on the diagonal included, and what
\* it returns is the inverse.
C17_InvertsNonsingular ==
    (/\ mxpc \in {"inverted", "multiplied"}
     /\ mxSelf.rows = mxSelf.cols
     /\ Determinant(mxSelf.mat) # 0)
    => /\ mxInverse.tag = "Ok"
       /\ mxpc = "multiplied" => mxProduct = Ok(Matrix_identity(mxSelf.rows))

\* C18: identity laws of matrix multiplication.  For every r x c matrix m,
\* identity(r).mul(m) = m and m.mul(identity(c)) = m.
C18_IdentityLaws ==
    mxpc = "identity" => mxLeft = Ok(mxSelf) /\ mxRight = Ok(mxSelf)

\* A matrix that is not square has been multiplied by the identity on each
\* side over ExpLogField.
C18_Witness ==
    /\ mxpc = "identity"
    /\ mxField = "ExpLog"
    /\ mxSelf = Matrix(2, 1, <<<<68>>, <<1>>>>)
    /\ mxLeft = Ok(mxSelf)
    /\ mxRight = Ok(mxSelf)

(***************************************************************************)
(* ProductSpec: a matrix is multiplied by another one of any shape.        *)
(***************************************************************************)
\* self.mul(&other, &field)
Multiply ==
    /\ mxpc = "start"
    /\ \E other \in Matrices :
          /\ mxOther' = other
          /\ mxProduct' = Matrix_mul(mxSelf, other, mxField)
    /\ mxpc' = "product"
    /\ UNCHANGED <<mxField, mxSelf, mxInverse, mxLeft, mxRight,
                   mxMask, mxCols, mxPartial, mxFull,
                   cvars, fvars, svars, pvars, lvars, kvars>>

ProductNext == Multiply

ProductSpec == MatrixInit /\ [][ProductNext]_vars

\* C24: a dimension mismatch is an error value.  Matrix::mul with
\* a.cols # b.rows yields a DimensionMismatch error value and does not
\* panic.
C24_DimensionMismatch ==
    mxpc = "product" /\ mxSelf.cols # mxOther.rows
    => mxProduct.tag = "Err"

(***************************************************************************)
(* VandermondeSpec: the rows of a Vandermonde matrix picked by a mask.     *)
(***************************************************************************)
VandermondeInit ==
    /\ mxField \in Fields
    /\ mxSelf = Matrix_identity(1)
    /\ mxpc = "mask"
    /\ mxInverse = NotRun
    /\ mxProduct = NotRun
    /\ mxLeft = NotRun
    /\ mxRight = NotRun
    /\ mxOther = NotRun
    /\ mxMask \in UNION {Masks(n) : n \in 0..MaxMask}
    /\ mxCols \in 0..MaxCols
    /\ mxPartial = NotRun
    /\ mxFull = NotRun
    /\ CodecIdle
    /\ FieldIdle
    /\ ShamirIdle
    /\ ParseIdle
    /\ PolyIdle
    /\ ChunkIdle

\* PartialVandermondeMatrix(mask.iter().cloned(), cols, &field) and
\* VandermondeMatrix(0, mask.len(), cols, &field)
BuildVandermonde ==
    /\ mxpc = "mask"
    /\ mxPartial' = partial_vandermonde_matrix(mxMask, mxCols, mxField)
    /\ mxFull' = vandermonde_matrix(0, Len(mxMask), mxCols, mxField)
    /\ mxpc' = "built"
    /\ UNCHANGED <<mxField, mxSelf, mxInverse, mxProduct, mxLeft, mxRight,
                   mxOther, mxMask, mxCols,
                   cvars, fvars, svars, pvars, lvars, kvars>>

VandermondeNext == BuildVandermonde

VandermondeSpec == VandermondeInit /\ [][VandermondeNext]_vars

\* The rows whose mask entry is true, in their order.
RECURSIVE SelectRows(_, _)
SelectRows(mask, rows) ==
    IF mask = <<>> THEN <<>>
    ELSE (IF Head(mask) THEN <<Head(rows)>> ELSE <<>>)
         \o SelectRows(Tail(mask), Tail(rows))

\* C28: the partial Vandermonde matrix is a row selection.
\* partial_vandermonde(mask, cols, field) consists of the rows i of
\* vandermonde(0, |mask|, cols, field) with mask[i] true, in increasing
\* order of i, row i holding field.exp(i, j) in column j; when the mask
\* has more true entries than cols the result has more rows than columns.
C28_PartialVandermonde ==
    (mxpc = "built" /\ mxCols >= 1 /\ \E i \in 1..Len(mxMask) : mxMask[i])
    => /\ mxFull.tag = "Ok"
       /\ mxPartial.tag = "Ok"
       /\ mxPartial.val.mat = SelectRows(mxMask, mxFull.val.mat)
       /\ mxPartial.val.cols = mxCols
       /\ mxPartial.val.rows = Cardinality({i \in 1..Len(mxMask) : mxMask[i]})
       /\ \A i \in 1..Len(mxMask), j \in 1..mxCols :
             mxFull.val.mat[i][j] = exp(mxField, i - 1, j - 1)
       /\ Cardinality({i \in 1..Len(mxMask) : mxMask[i]}) > mxCols
          => mxPartial.val.rows > mxPartial.val.cols

\* The mask (false, true, true, true) with two columns gives the three
\* rows 1, 2, 3 of the 4 x 2 Vandermonde matrix: more rows than columns.
C28_Witness ==
    /\ mxpc = "built"
    /\ mxField = "Direct"
    /\ mxMask = <<FALSE, TRUE, TRUE, TRUE>>
    /\ mxCols = 2
    /\ mxPartial = Ok(Matrix(3, 2, <<<<1, 1>>, <<1, 2>>, <<1, 3>>>>))

(***************************************************************************)
(* ParseSpec: Encoding::from_str on a string.                              *)
(***************************************************************************)
\* What the string starts with, and the pieces that follow, joined by ".".
Prefixes == {<<>>, <<"r", "s", "=">>, <<"r", "s">>, <<"s", "r", "=">>}
Pieces ==
    {<<>>, <<"0">>, <<"4">>, <<"9">>, <<"1", "2", "7">>, <<"1", "2", "8">>,
     <<"2", "5", "6">>, <<"0", "0", "7">>, <<"+", "5">>, <<"-", "1">>,
     <<"x">>}

RECURSIVE Join(_, _)
Join(parts, sep) ==
    IF Len(parts) = 1 THEN parts[1]
    ELSE Join(SubSeq(parts, 1, Len(parts) - 1), sep)
         \o <<sep>> \o parts[Len(parts)]

Texts ==
    {prefix \o Join(parts, ".") :
        prefix \in Prefixes,
        parts \in UNION {SeqsOf(Pieces, n) : n \in 1..MaxParts}}

ParseInit ==
    /\ psText \in Texts
    /\ psResult = NotRun
    /\ CodecIdle
    /\ FieldIdle
    /\ ShamirIdle
    /\ MatrixIdle
    /\ PolyIdle
    /\ ChunkIdle

\* FromStr::from_str(s)
Parse ==
    /\ psResult = NotRun
    /\ psResult' = Encoding_from_str(psText)
    /\ UNCHANGED <<psText, cvars, fvars, svars, mvars, lvars, kvars>>

ParseNext == Parse

ParseSpec == ParseInit /\ [][ParseNext]_vars

\* The decimal digits of n, and the numerals that denote n: its digits
\* after any leading zeros, with or without a "+" in front.
RECURSIVE ToDecimal(_)
ToDecimal(n) ==
    IF n < 10 THEN <<DigitChars[n + 1]>>
    ELSE Append(ToDecimal(n \div 10), DigitChars[(n % 10) + 1])

RECURSIVE StripZeros(_)
StripZeros(digits) ==
    IF Len(digits) > 1 /\ digits[1] = "0" THEN StripZeros(Tail(digits))
    ELSE digits

Unsigned(numeral) ==
    IF Len(numeral) > 0 /\ numeral[1] = "+" THEN Tail(numeral) ELSE numeral

IsNumeral(numeral) ==
    /\ Len(Unsigned(numeral)) > 0
    /\ \A i \in 1..Len(Unsigned(numeral)) : IsDigit(Unsigned(numeral)[i])
    /\ \E n \in 0..255 : ToDecimal(n) = StripZeros(Unsigned(numeral))

NumeralValue(numeral) ==
    CHOOSE n \in 0..255 : ToDecimal(n) = StripZeros(Unsigned(numeral))

\* The strings "rs=" k "." m, with k and m numerals.
WellFormed(s) ==
    /\ Len(s) >= 3
    /\ SubSeq(s, 1, 3) = <<"r", "s", "=">>
    /\ \E dot \in 4..Len(s) :
          /\ s[dot] = "."
          /\ IsNumeral(SubSeq(s, 4, dot - 1))
          /\ IsNumeral(SubSeq(s, dot + 1, Len(s)))

DataOf(s) ==
    NumeralValue(SubSeq(s, 4, (CHOOSE dot \in 4..Len(s) : s[dot] = ".") - 1))
CodeOf(s) ==
    NumeralValue(SubSeq(s, (CHOOSE dot \in 4..Len(s) : s[dot] = ".") + 1,
                        Len(s)))

PolySamples == {0, 1, 68, 128}
ValueLists == UNION {SeqsOf(PolySamples, n) : n \in 1..MaxLen}
\* The coefficients of a right operand: the zero polynomial as well.
OperandLists == {<<>>} \cup ValueLists

PolyInit ==
    /\ plValues \in ValueLists
    /\ plOther = <<>>
    /\ plPoly = Polynomial_zero
    /\ plX = 0
    /\ plY = 0
    /\ plpc = "start"
    /\ CodecIdle
    /\ FieldIdle
    /\ ShamirIdle
    /\ MatrixIdle
    /\ ParseIdle
    /\ ChunkIdle

\* Polynomial::interpolate(&values)
Interpolate ==
    /\ plpc = "start"
    /\ plPoly' = interpolate(plValues)
    /\ plpc' = "interpolated"
    /\ UNCHANGED <<plValues, plOther, plX, plY, cvars, fvars, svars, mvars, pvars, kvars>>

\* p.evaluate(i), i an index of values
Evaluate ==
    /\ plpc = "interpolated"
    /\ \E i \in 0..(Len(plValues) - 1) :
          /\ plX' = i
          /\ plY' = evaluate(plPoly, i)
    /\ plpc' = "evaluated"
    /\ UNCHANGED <<plValues, plOther, plPoly, cvars, fvars, svars, mvars, pvars, kvars>>

\* Polynomial::from_coefficients(&values)
Construct ==
    /\ plpc = "start"
    /\ plPoly' = from_coefficients(plValues)
    /\ plpc' = "constructed"
    /\ UNCHANGED <<plValues, plOther, plX, plY, cvars, fvars, svars, mvars, pvars, kvars>>

\* &from_coefficients(&values) + &from_coefficients(&other)
Add ==
    /\ plpc = "start"
    /\ \E other \in OperandLists :
          /\ plOther' = other
          /\ plPoly' = Polynomial_add(from_coefficients(plValues),
                                      from_coefficients(other))
    /\ plpc' = "added"
    /\ UNCHANGED <<plValues, plX, plY, cvars, fvars, svars, mvars, pvars, kvars>>

\* &from_coefficients(&values) * &from_coefficients(&other)
Mul ==
    /\ plpc = "start"
    /\ \E other \in OperandLists :
          /\ plOther' = other
          /\ plPoly' = Polynomial_mul(from_coefficients(plValues),
                                      from_coefficients(other))
    /\ plpc' = "multiplied"
    /\ UNCHANGED <<plValues, plX, plY, cvars, fvars, svars, mvars, pvars, kvars>>

\* p.evaluate(x) for a constructed p and any byte x
EvaluateAt ==
    /\ plpc = "constructed"
    /\ \E x \in Byte :
          /\ plX' = x
          /\ plY' = evaluate(plPoly, x)
    /\ plpc' = "evaluated_at"
    /\ UNCHANGED <<plValues, plOther, plPoly, cvars, fvars, svars, mvars, pvars, kvars>>

PolyNext ==
    Interpolate \/ Evaluate \/ Construct \/ Add \/ Mul \/ EvaluateAt

PolySpec == PolyInit /\ [][PolyNext]_vars

\* C20: interpolation passes through its points.  For every sequence ys of
\* bytes, p = interpolate(ys) satisfies p.evaluate(i) = ys[i] for every
\* index i of ys, the last one included.
C20_InterpolatesPoints ==
    plpc = "evaluated" => plY = At(plValues, plX)

\* A polynomial in normal form: empty, or with a nonzero last coefficient.
NormalForm(p) == p = <<>> \/ p[Len(p)] # 0

AllZero(p) == \A i \in 1..Len(p) : p[i] = 0

\* C21: polynomial normal form.  Every polynomial produced by
\* from_coefficients, add, mul or interpolate is either empty (the zero
\* polynomial, of degree -1) or has a nonzero last coefficient, and is_zero
\* holds exactly when all coefficients are zero.  For add and mul the
\* operands are themselves in normal form.
C21_NormalForm ==
    /\ plpc \in {"constructed", "interpolated"}
       => NormalForm(plPoly) /\ (is_zero(plPoly) <=> AllZero(plPoly))
    /\ (plpc \in {"added", "multiplied"}
        /\ NormalForm(plValues) /\ NormalForm(plOther))
       => NormalForm(plPoly) /\ (is_zero(plPoly) <=> AllZero(plPoly))

\* The value of p at x in field arithmetic: the XOR over i of
\* c_i * x^i, products and powers taken in GF(2^8).
RECURSIVE FieldEvaluate(_, _, _)
FieldEvaluate(p, x, i) ==
    IF i > Len(p) THEN 0
    ELSE Xor(Direct_mul(p[i], Direct_exp(x, i - 1)), FieldEvaluate(p, x, i + 1))

\* C22: evaluation uses field arithmetic.  evaluate(p, x) is the XOR over
\* i of field.mul(c_i, field.exp(x, i)) for the coefficients c_i of p, and
\* the zero polynomial evaluates to 0.
C22_EvaluateInField ==
    /\ plpc = "evaluated_at" => plY = FieldEvaluate(plPoly, plX, 1)
    /\ evaluate(Polynomial_zero, plX) = 0

(***************************************************************************)
(* ChunkSpec: an iterator is wrapped by chunked or chunked_with_default    *)
(* and next() is called on the wrapper again and again.                    *)
(***************************************************************************)
ChunkItems == {0, 1}
ChunkInputs == UNION {SeqsOf(ChunkItems, n) : n \in 0..MaxItems}
\* Calls enough to exhaust every input and to call twice more.
MaxCalls == MaxItems + 2

\* iter.chunked(chunk_size) or iter.chunked_with_default(chunk_size, default)
ChunkInit ==
    /\ ckInput \in ChunkInputs
    /\ ckIter = ckInput
    /\ ckSize \in 1..MaxChunk
    /\ \/ ckMode = "chunked" /\ ckDefault = 0
       \/ ckMode = "chunked_with_default" /\ ckDefault \in ChunkItems
    /\ ckWindows = <<>>
    /\ ckLast = NotRun
    /\ ckCalls = 0
    /\ CodecIdle
    /\ FieldIdle
    /\ ShamirIdle
    /\ MatrixIdle
    /\ ParseIdle
    /\ PolyIdle

\* What a call of next() leaves behind, n being the window and the items
\* left: an empty window is None.
Returned(n) ==
    /\ ckIter' = n.iter
    /\ ckLast' = IF Len(n.ret) = 0 THEN None ELSE Some(n.ret)
    /\ ckWindows' = IF Len(n.ret) = 0 THEN ckWindows ELSE Append(ckWindows, n.ret)
    /\ ckCalls' = ckCalls + 1
    /\ UNCHANGED <<ckInput, ckSize, ckDefault, ckMode,
                   cvars, fvars, svars, mvars, pvars, lvars>>

\* Chunker::next
ChunkerNext ==
    /\ ckMode = "chunked"
    /\ ckCalls < MaxCalls
    /\ Returned(Chunker_next(ckIter, ckSize))

\* ChunkerDefault::next
ChunkerDefaultNext ==
    /\ ckMode = "chunked_with_default"
    /\ ckCalls < MaxCalls
    /\ Returned(ChunkerDefault_next(ckIter, ckSize, ckDefault))

ChunkNext == ChunkerNext \/ ChunkerDefaultNext

ChunkSpec == ChunkInit /\ [][ChunkNext]_vars

\* ceil(n / c)
CeilDiv(n, c) == (n + c - 1) \div c

\* The iterator has been run dry: a call of next() has returned None.
Exhausted == ckCalls > 0 /\ ckLast.tag = "None"

\* C23: chunker window sizes.  For an input of n items and a chunk size
\* c >= 1 both chunkers yield exactly ceil(n / c) windows (none for an
\* empty input); every window but the last has c items; the last has c
\* items in padded mode, the tail filled with the default, and
\* n - c * (ceil(n / c) - 1) items in strict mode.
C23_WindowSizes ==
    LET n == Len(ckInput)
        c == ckSize
        w == Len(ckWindows)
    IN /\ w <= CeilDiv(n, c)
       /\ \A i \in 1..w : i < CeilDiv(n, c) => Len(ckWindows[i]) = c
       /\ Exhausted => w = CeilDiv(n, c)
       /\ w > 0 /\ w = CeilDiv(n, c)
          => IF ckMode = "chunked_with_default"
             THEN /\ Len(ckWindows[w]) = c
                  /\ \A j \in 1..c :
                        ckWindows[w][j] = IF c * (w - 1) + j <= n
                                          THEN ckInput[c * (w - 1) + j]
                                          ELSE ckDefault
             ELSE Len(ckWindows[w]) = n - c * (CeilDiv(n, c) - 1)

\* Four items in strict windows of three: a full window, then a last
\* window of one item, then None.
C23_Witness ==
    /\ Len(ckInput) = 4
    /\ ckSize = 3
    /\ ckMode = "chunked"
    /\ Exhausted
    /\ Len(ckWindows) = 2
    /\ Len(ckWindows[2]) = 1

\* The windows laid end to end.
RECURSIVE Flatten(_)
Flatten(windows) ==
    IF windows = <<>> THEN <<>> ELSE Head(windows) \o Flatten(Tail(windows))

\* The windows returned so far are the consumed items in their order, each
\* once, followed by defaults only when a padded chunker has run out of
\* items; the items left are the rest of the input.
WindowsArePrefix ==
    LET n == Len(ckInput)
        consumed == n - Len(ckIter)
        flat == Flatten(ckWindows)
    IN /\ ckIter = SubSeq(ckInput, consumed + 1, n)
       /\ Len(flat) >= consumed
       /\ SubSeq(flat, 1, consumed) = SubSeq(ckInput, 1, consumed)
       /\ \A j \in (consumed + 1)..Len(flat) : flat[j] = ckDefault
       /\ Len(flat) > consumed
          => /\ ckMode = "chunked_with_default"
             /\ ckIter = <<>>
             /\ Len(flat) - consumed < ckSize
       /\ Exhausted => consumed = n
       /\ ckInput = <<>> /\ ckCalls > 0 => Exhausted /\ ckWindows = <<>>

\* A call on an exhausted chunker returns None and yields nothing.
StaysExhausted ==
    Exhausted => ckLast'.tag = "None" /\ ckWindows' = ckWindows /\ ckIter' = <<>>

\* C27: the chunker is single-pass and order-preserving.  After any number
\* of next() calls the concatenation of the windows returned equals a prefix
\* of the input (plus defaults only after the final window in padded mode),
\* each item is in exactly one window, once exhausted next() returns None
\* at every later call, and an empty input yields None on the first call in
\* both modes.
C27_SinglePass ==
    []WindowsArePrefix /\ [][StaysExhausted]_vars

\* A padded chunker over three items in windows of two has returned two
\* windows, the second ending in the default, and then None twice.
C27_Witness ==
    /\ Len(ckInput) = 3
    /\ ckSize = 2
    /\ ckMode = "chunked_with_default"
    /\ Len(ckWindows) = 2
    /\ ckWindows[2] = <<ckInput[3], ckDefault>>
    /\ Exhausted
    /\ ckCalls = 4

(***************************************************************************)
(* TamperSpec: a buffer is encoded, the caller marks columns as lost, a    *)
(* second stream is made from the first by changing one column or the      *)
(* length, and both streams are decoded.                                   *)
(***************************************************************************)
\* The buffers encoded: one of each length up to MaxLen, 68, 69, 70, ...
TamperBuffers == {Tabulate(1, n, LAMBDA i : 67 + i) : n \in 0..MaxLen}

TamperInit ==
    /\ encoder \in Codecs
    /\ fieldv \in Fields
    /\ rs \in Encodings
    /\ input \in TamperBuffers
    /\ pc = "start"
    /\ sent = NotRun
    /\ output = NotRun
    /\ twin = NotRun
    /\ twinOut = NotRun
    /\ FieldIdle
    /\ ShamirIdle
    /\ MatrixIdle
    /\ ParseIdle
    /\ PolyIdle
    /\ ChunkIdle

\* The stream with every byte of column c (from 1) replaced by the next
\* byte value.
WithColumnChanged(stream, c) ==
    [stream EXCEPT !.codes =
        Tabulate(1, Len(stream.codes), LAMBDA r :
            Tabulate(1, Len(stream.codes[r]), LAMBDA j :
                IF j = c THEN (stream.codes[r][j] + 1) % 256
                ELSE stream.codes[r][j]))]

\* The caller sets stream.valid; the second stream is a copy with one
\* column changed or, for c = 0, with its length set to 0.
Tamper ==
    /\ pc = "encoded"
    /\ sent.tag = "Ok"
    /\ \E mask \in Masks(total_chunks(rs)), c \in 0..total_chunks(rs) :
          /\ sent' = [sent EXCEPT !.val.valid = mask]
          /\ twin' = IF c = 0
                     THEN [sent.val EXCEPT !.valid = mask, !.length = 0]
                     ELSE WithColumnChanged([sent.val EXCEPT !.valid = mask], c)
    /\ pc' = "tampered"
    /\ UNCHANGED <<encoder, fieldv, rs, input, output, twinOut,
                   fvars, svars, mvars, pvars, lvars, kvars>>

\* encoder.decode_bytes(&stream, &field) on each of the two streams
DecodeBoth ==
    /\ pc = "tampered"
    /\ output' = decode_bytes(encoder, sent.val, fieldv)
    /\ twinOut' = decode_bytes(encoder, twin, fieldv)
    /\ pc' = "compared"
    /\ UNCHANGED <<encoder, fieldv, rs, input, sent, twin,
                   fvars, svars, mvars, pvars, lvars, kvars>>

TamperNext == Encode \/ Tamper \/ DecodeBoth

TamperSpec == TamperInit /\ [][TamperNext]_vars

\* The lowest k columns marked valid (from 1), k the data chunks of the
\* encoding; fewer when fewer are marked.
RECURSIVE LowestValid(_, _, _)
LowestValid(valid, i, k) ==
    IF i > Len(valid) \/ k = 0 THEN {}
    ELSE IF valid[i] THEN {i} \cup LowestValid(valid, i + 1, k - 1)
    ELSE LowestValid(valid, i + 1, k)

\* Two streams agree on length, encoding, valid and, in every stripe, on
\* the bytes of the lowest k valid columns.
AgreeOnRead(a, b) ==
    /\ a.length = b.length
    /\ a.encoding = b.encoding
    /\ a.valid = b.valid
    /\ Len(a.codes) = Len(b.codes)
    /\ \A r \in 1..Len(a.codes) :
          \A j \in LowestValid(a.valid, 1, a.encoding.data_chunks) :
             a.codes[r][j] = b.codes[r][j]

\* C25: decode reads only the k selected columns.  Two streams that agree
\* on length, encoding, valid and the bytes at the lowest k valid columns
\* of every stripe decode to the same result; erased columns and valid
\* columns beyond the first k never influence the output.
C25_ReadsSelectedColumns ==
    pc = "compared" /\ AgreeOnRead(sent.val, twin) => twinOut = output

\* Over k = 1, m = 2 with all three columns valid, the streams differ in
\* the valid column 2, beyond the first k, and both decode to the input.
C25_Witness ==
    /\ pc = "compared"
    /\ rs = Encoding(1, 2)
    /\ input = <<68, 69>>
    /\ sent.val.valid = <<TRUE, TRUE, TRUE>>
    /\ twin = WithColumnChanged(sent.val, 2)
    /\ twin # sent.val
    /\ output = Ok(input)
    /\ twinOut = Ok(input)

\* C26: a zero-length stream decodes to the empty buffer.  For every
\* codec a stream with length = 0 decodes to the empty buffer whatever its
\* mask and codes, also with fewer than k true entries in the mask;
\* TooManyErasures is returned only when length > 0.
C26_ZeroLength ==
    pc = "compared"
    => /\ sent.val.length = 0 => output = Ok(<<>>)
       /\ twin.length = 0 => twinOut = Ok(<<>>)
       /\ output = TooManyErasures => sent.val.length > 0
       /\ twinOut = TooManyErasures => twin.length > 0

\* A stream of two stripes over k = 2, m = 1 with every column marked lost
\* has had its length set to 0 and decodes to the empty buffer, while the
\* stream it was made from is refused.
C26_Witness ==
    /\ pc = "compared"
    /\ rs = Encoding(2, 1)
    /\ sent.val.valid = <<FALSE, FALSE, FALSE>>
    /\ sent.val.length = 3
    /\ output = TooManyErasures
    /\ twin.length = 0
    /\ Len(twin.codes) = 2
    /\ twinOut = Ok(<<>>)

(***************************************************************************)
(* ShamirSpec: shamir(shards, required, length), then unshamir on phrases  *)
(* typed in by the user.                                                   *)
(***************************************************************************)
\* The phrases a user may type in one slot: any words of the sample bytes.
TypedPhrases ==
    UNION {SeqsOf({At(wordlist, b) : b \in ByteSamples}, n) : n \in 0..MaxWords}

\* The positional phrase lists handed to unshamir: in each slot a hole, a
\* typed phrase, or the phrase shamir printed for that slot.
Slot(j) ==
    {None} \cup {Some(p) : p \in TypedPhrases}
    \cup (IF sPhrases.tag = "Ok" THEN {Some(sPhrases.val[j])} ELSE {})

RECURSIVE GivenLists(_)
GivenLists(j) ==
    IF j = 0 THEN {<<>>}
    ELSE {Append(g, e) : g \in GivenLists(j - 1), e \in Slot(j)}

ShamirInit ==
    /\ sN \in 1..MaxShards
    /\ sK \in 1..sN
    /\ sL \in 0..MaxWords
    /\ sRandom \in SeqsOf(SeqsOf(ByteSamples, sK), sL)
    /\ spc = "start"
    /\ sPhrases = NotRun
    /\ sGiven = <<>>
    /\ sPassword = NotRun
    /\ CodecIdle
    /\ FieldIdle
    /\ MatrixIdle
    /\ ParseIdle
    /\ PolyIdle
    /\ ChunkIdle

\* shamir(shards, required, length)
Generate ==
    /\ spc = "start"
    /\ sPhrases' = shamir(sN, sK, sL, sRandom)
    /\ spc' = "generated"
    /\ UNCHANGED <<sN, sK, sL, sRandom, sGiven, sPassword, cvars, fvars, mvars, pvars, lvars, kvars>>

\* unshamir(&phrases, required)
Restore ==
    /\ spc = "generated"
    /\ \E given \in GivenLists(sN + 1) :
          /\ sGiven' = given
          /\ sPassword' = unshamir(given, sK)
    /\ spc' = "restored"
    /\ UNCHANGED <<sN, sK, sL, sRandom, sPhrases, cvars, fvars, mvars, pvars, lvars, kvars>>

ShamirNext == Generate \/ Restore

ShamirSpec == ShamirInit /\ [][ShamirNext]_vars

\* The phrases given are sK of the sN shards shamir printed, at their
\* positions, the password slot and the other shard slots being holes.
GivenRequiredShards ==
    /\ sPhrases.tag = "Ok"
    /\ Len(sGiven) = sN + 1
    /\ sGiven[1] = None
    /\ Cardinality({j \in 2..(sN + 1) : sGiven[j] # None}) = sK
    /\ \A j \in 2..(sN + 1) :
          sGiven[j] # None => sGiven[j] = Some(sPhrases.val[j])

\* C9: Shamir round trip.  For n >= k >= 1 and any L, shamir yields a
\* password and n shards of L words each, and unshamir on any k of the n
\* shards at their positions returns exactly the password.
C9_ShamirRoundTrip ==
    /\ spc \in {"generated", "restored"} =>
          /\ sPhrases.tag = "Ok"
          /\ Len(sPhrases.val) = sN + 1
          /\ \A j \in 1..(sN + 1) : Len(sPhrases.val[j]) = sL
    /\ (spc = "restored" /\ GivenRequiredShards) =>
          sPassword = Ok(sPhrases.val[1])
====
